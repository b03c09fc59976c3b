---------------------------- MODULE OrdersProofs ----------------------------
(***************************************************************************)
(* Proofs about Orders, for every set of users, goods, providers and       *)
(* totals and every bound.                                                 *)
(***************************************************************************)
EXTENDS Orders, SumTheorems

\* An id that was given out has a buyer who is a user and goods that exist.
Known ==
    \A o \in OrderIds : status[o] # "NONE" =>
      order[o].user \in Users /\ order[o].goods \in Goods

\* The rows _fail_hung_processing holds are not also held by a tick.
HungRowsUnticked ==
    worker.pc = "hung" => \A o \in worker.ids : tick[o].by = "none"

\* The inductive invariant: Settled alone is not inductive, for FailHung
\* would refund an order whose tick is open if the locks did not exclude
\* each other, and a reward is only a number for a known buyer.
IInv == TypeOK /\ Known /\ HungRowsUnticked /\ Settled

LEMMA PercentOf ==
    ASSUME NEW n \in Nat, NEW p \in 0..99
    PROVE  (n * p) \div 100 \in Nat
<1>1. n * p \in Nat
  OBVIOUS
<1> DEFINE m == n * p
<1>2. m \div 100 \in Nat
  <2> HIDE DEF m
  <2>1. m \in Nat
    BY <1>1 DEF m
  <2> QED BY <2>1
<1> QED BY <1>2

\* A reward is a natural number of kopecks (credit_referral_for_order).
LEMMA RewardNat ==
    ASSUME NEW buy \in OrderRows
    PROVE  Reward(buy) \in Nat
<1>1. buy.total \in Nat
  BY DEF OrderRows
<1> QED BY <1>1, PercentOf, UsersAssumption DEF Reward

\* Orders accepted by providers are counted up to MaxExt.
LEMMA ExtNat ==
    ASSUME IInv, NEW p \in OrderIds
    PROVE  ext[p]["answered"] \in Nat
<1>1. ext[p] \in [Outcomes -> 0..MaxExt] /\ MaxExt \in Nat /\ "answered" \in Outcomes
  BY WorkerAssumption DEF IInv, TypeOK, Outcomes
<1> QED BY <1>1

LEMMA ExtNatNext ==
    ASSUME IInv', NEW p \in OrderIds
    PROVE  ext'[p]["answered"] \in Nat
<1>1. ext'[p] \in [Outcomes -> 0..MaxExt] /\ MaxExt \in Nat /\ "answered" \in Outcomes
  BY WorkerAssumption DEF IInv, TypeOK, Outcomes
<1> QED BY <1>1

LEMMA InitInv == Init => IInv
<1> SUFFICES ASSUME Init PROVE IInv
  OBVIOUS
<1>1. TypeOK
  BY UsersAssumption, GoodsAssumption, WorkerAssumption
     DEF Init, TypeOK, OrderRows, Ticks, NoTick, Idle, Statuses, Allowed,
         OrderIds, Outcomes, Positions
<1>2. Known /\ HungRowsUnticked
  BY DEF Init, Known, HungRowsUnticked, Idle
<1>3. Settled
  BY WorkerAssumption DEF Init, Settled, OrderSettled, NoTick, OrderIds
<1> QED BY <1>1, <1>2, <1>3 DEF IInv

-----------------------------------------------------------------------------
(***************************************************************************)
(* Settlement                                                              *)
(***************************************************************************)

\* What Complete does to a PROCESSING order keeps the types and moves the
\* reward and nothing else.
LEMMA CompleteMoves ==
    ASSUME IInv, NEW o \in OrderIds, status[o] = "PROCESSING",
           Complete(o), order' = order
    PROVE  /\ balance' \in [Users -> Nat]
           /\ status' = [status EXCEPT ![o] = "COMPLETED"]
           /\ bought' = [bought EXCEPT ![o] = Recipient(order[o])]
           /\ earned' = [earned EXCEPT ![o] = Reward(order[o])]
           /\ Reward(order[o]) \in Nat
           /\ Recipient(order[o]) \in Users
           /\ \A u \in Users :
                balance'[u] - balance[u] = Moved(o, u)' - Moved(o, u)
<1>1. /\ order[o] \in OrderRows /\ earned[o] = 0
      /\ order[o].user \in Users
      /\ balance \in [Users -> Nat] /\ earned \in [OrderIds -> Nat]
      /\ status \in [OrderIds -> Statuses]
  BY DEF IInv, TypeOK, Settled, OrderSettled, Known
<1>2. Reward(order[o]) \in Nat
  BY <1>1, RewardNat
<1>3. Recipient(order[o]) \in Users
  BY <1>1 DEF Recipient, OrderRows
<1>4. balance' \in [Users -> Nat]
  BY <1>1, <1>2 DEF Complete, ToReferrer
<1>5. ASSUME NEW u \in Users
      PROVE  balance'[u] - balance[u] = Moved(o, u)' - Moved(o, u)
  <2> DEFINE r == Reward(order[o])
  <2>1. balance'[u] = balance[u] + ToReferrer(order[o], r, u)
    BY <1>5 DEF Complete
  <2>2. status'[o] = "COMPLETED" /\ earned'[o] = r
    BY <1>1 DEF Complete
  <2>3. order[o].total \in Nat
    BY <1>1 DEF OrderRows
  <2> HIDE DEF r
  <2>4. r \in Nat
    BY <1>2 DEF r
  <2> QED BY <1>1, <2>1, <2>2, <2>3, <2>4 DEF Moved, Held, ToBuyer, ToReferrer
<1> QED BY <1>2, <1>3, <1>4, <1>5 DEF Complete

\* The same of Refund, for an order that is paid.
LEMMA RefundMoves ==
    ASSUME IInv, NEW o \in OrderIds, status[o] \in Held,
           Refund(o), order' = order
    PROVE  /\ balance' \in [Users -> Nat]
           /\ status' = [status EXCEPT ![o] = "REFUNDED"]
           /\ earned' = [earned EXCEPT ![o] = 0]
           /\ \A u \in Users :
                balance'[u] - balance[u] = Moved(o, u)' - Moved(o, u)
<1>1. /\ order[o].total \in Nat
      /\ balance \in [Users -> Nat] /\ earned \in [OrderIds -> Nat]
      /\ status \in [OrderIds -> Statuses]
  BY DEF IInv, TypeOK, OrderRows
<1>2. ASSUME NEW u \in Users
      PROVE  /\ balance[u] + ToBuyer(order[o], order[o].total, u)
                           - ToReferrer(order[o], earned[o], u) \in Nat
             /\ balance'[u] - balance[u] = Moved(o, u)' - Moved(o, u)
  <2>1. balance'[u] = balance[u] + ToBuyer(order[o], order[o].total, u)
                                 - ToReferrer(order[o], earned[o], u)
    BY <1>2 DEF Refund
  <2>2. status'[o] = "REFUNDED" /\ earned'[o] = 0
    BY <1>1 DEF Refund
  <2>3. earned[o] > 0 => balance[Referrer[order[o].user]] >= earned[o]
    BY DEF Refund
  <2> QED BY <1>1, <2>1, <2>2, <2>3 DEF Moved, Held, ToBuyer, ToReferrer
<1>3. balance' \in [Users -> Nat]
  BY <1>2 DEF Refund
<1> QED BY <1>2, <1>3 DEF Refund

-----------------------------------------------------------------------------
(***************************************************************************)
(* One lemma per kind of step                                              *)
(***************************************************************************)

\* A step that changes no order row, balance, reward or delivery moves no
\* money.
LEMMA NothingMoves ==
    ASSUME UNCHANGED <<balance, order, status, earned>>, TypeOK
    PROVE  MovesOneOrder
<1>1. 1 \in OrderIds
  BY WorkerAssumption DEF OrderIds
<1>2. \A u \in Users : Moved(1, u)' = Moved(1, u)
  BY DEF Moved, ToBuyer, ToReferrer
<1>3. \A u \in Users : balance[u] \in Nat /\ Moved(1, u) \in Int
  BY <1>1, UsersAssumption
     DEF TypeOK, Moved, ToBuyer, ToReferrer, OrderRows
<1> QED BY <1>1, <1>2, <1>3 DEF MovesOneOrder

\* An order whose rows the step leaves alone stays settled.
LEMMA StaysSettled ==
    ASSUME IInv, NEW p \in OrderIds,
           p > lastId' <=> p > lastId,
           order'[p] = order[p], status'[p] = status[p],
           tick'[p].by = "none" \/ tick'[p] = tick[p],
           extId'[p] = extId[p],
           ext'[p]["answered"] >= ext[p]["answered"], ext'[p]["answered"] \in Nat,
           bought'[p] = bought[p], earned'[p] = earned[p],
           attempts'[p] = attempts[p]
    PROVE  OrderSettled(p)'
<1>1. OrderSettled(p) /\ ext[p]["answered"] \in Nat
  BY ExtNat DEF IInv, Settled
<1>2. /\ Reward(order[p])' = Reward(order[p])
      /\ Recipient(order[p])' = Recipient(order[p])
  BY DEF Reward, Recipient
<1> QED BY <1>1, <1>2 DEF OrderSettled

LEMMA BuyApiStep ==
    ASSUME IInv, NEW buy \in Purchases, BuyApi(buy)
    PROVE  IInv' /\ MovesOneOrder
<1>0. PICK n \in OrderIds : n = lastId + 1
  BY WorkerAssumption DEF BuyApi, CanBuy, IInv, TypeOK, OrderIds
<1>1. /\ status[n] = "NONE" /\ buy \in OrderRows
      /\ earned[n] = 0 /\ bought[n] = NoUser
      /\ attempts[n] < MaxRetries /\ tick[n].by = "none"
  <2>2. buy \in OrderRows
    BY GoodsAssumption DEF Purchases, OrderRows
  <2>3. OrderSettled(n) /\ lastId \in Nat /\ attempts[n] \in Nat
    BY DEF IInv, TypeOK, Settled
  <2>4. status[n] = "NONE"
    BY <1>0, <2>3 DEF OrderSettled
  <2> QED BY <2>2, <2>3, <2>4, WorkerAssumption DEF OrderSettled
<1>2. order' = [order EXCEPT ![n] = buy] /\ lastId' = n
  BY <1>0 DEF BuyApi, NewOrder
<1>3. TypeOK'
  <2>1. PrimaryLink(buy.goods) \in Providers \cup {NoProvider}
    BY DEF PrimaryLink
  <2>2. balance' \in [Users -> Nat]
    BY <1>1 DEF BuyApi, CanBuy, ToBuyer, IInv, TypeOK, OrderRows, Purchases
  <2>3. lastId' \in 0..MaxOrders
    BY <1>0, <1>1, <1>2, WorkerAssumption DEF OrderIds
  <2>4. "PROCESSING" \in Statuses
    BY DEF Statuses, Allowed
  <2> QED BY <1>0, <1>1, <1>2, <2>1, <2>2, <2>3, <2>4 DEF BuyApi, IInv, TypeOK
<1>4. Known' /\ HungRowsUnticked'
  BY <1>0, <1>1, <1>2 DEF BuyApi, IInv, TypeOK, Known, HungRowsUnticked, Purchases
<1>5. Settled'
  <2>1. OrderSettled(n)'
    BY <1>0, <1>1, <1>2 DEF BuyApi, IInv, TypeOK, OrderSettled, Settled
  <2>2. ASSUME NEW p \in OrderIds \ {n}
        PROVE  OrderSettled(p)'
    <3>1. p > lastId' <=> p > lastId
      BY <1>0, <1>2 DEF OrderIds, IInv, TypeOK
    <3>2. /\ order'[p] = order[p] /\ status'[p] = status[p]
          /\ UNCHANGED <<tick, extId, ext, bought, earned, attempts>>
          /\ ext[p]["answered"] \in Nat
      BY ExtNat, <1>0, <1>2 DEF BuyApi, IInv, TypeOK
    <3> QED BY <3>1, <3>2, StaysSettled
  <2> QED BY <2>1, <2>2 DEF Settled
<1>6. MovesOneOrder
  <2>1. /\ status'[n] = "PROCESSING" /\ earned'[n] = 0 /\ order'[n] = buy
        /\ buy.total \in Nat
    BY <1>0, <1>1, <1>2 DEF BuyApi, IInv, TypeOK, OrderRows
  <2>2. ASSUME NEW u \in Users
        PROVE  balance'[u] - balance[u] = Moved(n, u)' - Moved(n, u)
    <3>1. balance'[u] = balance[u] - ToBuyer(buy, buy.total, u)
      BY DEF BuyApi
    <3>2. balance[u] \in Nat
      BY DEF IInv, TypeOK
    <3> QED BY <1>1, <2>1, <3>1, <3>2 DEF Moved, Held, ToBuyer
  <2>3. \A p \in OrderIds \ {n} : /\ order'[p] = order[p]
                                 /\ status'[p] = status[p]
                                 /\ earned'[p] = earned[p]
    BY <1>0, <1>1, <1>2 DEF BuyApi, IInv, TypeOK
  <2> QED BY <1>1, <2>2, <2>3 DEF MovesOneOrder
<1> QED BY <1>3, <1>4, <1>5, <1>6 DEF IInv

LEMMA BuyStockStep ==
    ASSUME IInv, NEW buy \in Purchases, BuyStock(buy)
    PROVE  IInv' /\ MovesOneOrder
<1>0. PICK n \in OrderIds : n = lastId + 1
  BY WorkerAssumption DEF BuyStock, CanBuy, IInv, TypeOK, OrderIds
<1>1. /\ status[n] = "NONE" /\ earned[n] = 0
      /\ attempts[n] < MaxRetries /\ tick[n].by = "none"
  <2>1. OrderSettled(n) /\ lastId \in Nat /\ attempts[n] \in Nat
    BY DEF IInv, TypeOK, Settled
  <2>2. status[n] = "NONE"
    BY <1>0, <2>1 DEF OrderSettled
  <2> QED BY <2>1, <2>2, WorkerAssumption DEF OrderSettled
<1>2. order' = [order EXCEPT ![n] = buy] /\ lastId' = n
  BY <1>0 DEF BuyStock, NewOrder
<1>3. /\ buy \in OrderRows /\ buy.total \in Nat /\ Reward(buy) \in Nat
      /\ Recipient(buy) \in Users \cup {NoUser}
  <2>1. buy \in OrderRows /\ buy.user \in Users
    BY GoodsAssumption DEF Purchases, OrderRows
  <2> QED BY <2>1, RewardNat DEF OrderRows, Recipient
<1>4. /\ status'[n] = "COMPLETED" /\ earned'[n] = Reward(buy)
      /\ bought'[n] = Recipient(buy) /\ order'[n] = buy
  BY <1>0, <1>2 DEF BuyStock, IInv, TypeOK
<1>5. TypeOK'
  <2> DEFINE r == Reward(buy)
  <2>1. balance' \in [Users -> Nat]
    <3>1. ASSUME NEW u \in Users
          PROVE  balance[u] - ToBuyer(buy, buy.total, u)
                            + ToReferrer(buy, r, u) \in Nat
      <4> HIDE DEF r
      <4>1. balance[buy.user] >= buy.total
        BY DEF BuyStock, CanBuy
      <4>2. r \in Nat
        BY <1>3 DEF r
      <4> QED BY <1>3, <4>1, <4>2 DEF IInv, TypeOK, ToBuyer, ToReferrer
    <3> QED BY <3>1 DEF BuyStock
  <2>2. stock' \in [StockGoods -> Nat]
    BY DEF BuyStock, IInv, TypeOK
  <2>3. lastId' \in 0..MaxOrders /\ "COMPLETED" \in Statuses
    BY <1>0, <1>2, WorkerAssumption DEF OrderIds, Statuses, Allowed
  <2> QED BY <1>0, <1>2, <1>3, <2>1, <2>2, <2>3 DEF BuyStock, IInv, TypeOK
<1>6. Known' /\ HungRowsUnticked'
  BY <1>0, <1>2, <1>4 DEF BuyStock, IInv, TypeOK, Known, HungRowsUnticked, Purchases
<1>7. Settled'
  <2>1. OrderSettled(n)'
    <3>1. /\ Reward(order[n])' = Reward(buy)
          /\ Recipient(order[n])' = Recipient(buy)
      BY <1>4 DEF Reward, Recipient
    <3> QED BY <1>0, <1>1, <1>2, <1>4, <3>1
            DEF BuyStock, IInv, TypeOK, OrderSettled, Settled
  <2>2. ASSUME NEW p \in OrderIds \ {n}
        PROVE  OrderSettled(p)'
    <3>1. p > lastId' <=> p > lastId
      BY <1>0, <1>2 DEF OrderIds, IInv, TypeOK
    <3>2. /\ order'[p] = order[p] /\ status'[p] = status[p]
          /\ bought'[p] = bought[p] /\ earned'[p] = earned[p]
          /\ UNCHANGED <<tick, extId, ext, attempts>>
          /\ ext[p]["answered"] \in Nat
      BY ExtNat, <1>0, <1>2 DEF BuyStock, IInv, TypeOK
    <3> QED BY <3>1, <3>2, StaysSettled
  <2> QED BY <2>1, <2>2 DEF Settled
<1>8. MovesOneOrder
  <2>1. ASSUME NEW u \in Users
        PROVE  balance'[u] - balance[u] = Moved(n, u)' - Moved(n, u)
    <3> DEFINE r == Reward(buy)
    <3>1. balance'[u] = balance[u] - ToBuyer(buy, buy.total, u)
                                   + ToReferrer(buy, r, u)
      BY DEF BuyStock
    <3>2. balance[u] \in Nat
      BY DEF IInv, TypeOK
    <3>3. earned'[n] = r /\ r \in Nat
      BY <1>3, <1>4
    <3> HIDE DEF r
    <3> QED BY <1>1, <1>3, <1>4, <3>1, <3>2, <3>3
            DEF Moved, Held, ToBuyer, ToReferrer
  <2>2. \A p \in OrderIds \ {n} : /\ order'[p] = order[p]
                                 /\ status'[p] = status[p]
                                 /\ earned'[p] = earned[p]
    BY <1>0, <1>2 DEF BuyStock, IInv, TypeOK
  <2> QED BY <2>1, <2>2 DEF MovesOneOrder
<1> QED BY <1>5, <1>6, <1>7, <1>8 DEF IInv

\* A refund of a paid order whose row no open tick will hold afterwards.
LEMMA RefundStep ==
    ASSUME IInv, NEW o \in OrderIds, status[o] \in Held, Refund(o),
           UNCHANGED <<lastId, order, bought, extId>>,
           tick'[o].by = "none",
           \A p \in OrderIds \ {o} :
             tick'[p] = tick[p] /\ attempts'[p] = attempts[p],
           \A p \in OrderIds : ext'[p]["answered"] \in Nat /\ ext'[p]["answered"] >= ext[p]["answered"]
    PROVE  Known' /\ Settled' /\ MovesOneOrder
<1>1. /\ status' = [status EXCEPT ![o] = "REFUNDED"]
      /\ earned' = [earned EXCEPT ![o] = 0]
      /\ \A u \in Users :
           balance'[u] - balance[u] = Moved(o, u)' - Moved(o, u)
  BY RefundMoves
<1>2. /\ status'[o] = "REFUNDED" /\ earned'[o] = 0
      /\ \A p \in OrderIds \ {o} :
           status'[p] = status[p] /\ earned'[p] = earned[p]
  BY <1>1 DEF IInv, TypeOK
<1>3. Known'
  BY <1>2 DEF IInv, Known, Held
<1>4. Settled'
  <2>1. OrderSettled(o) /\ ext[o]["answered"] \in Nat
    BY ExtNat DEF IInv, Settled
  <2>2. OrderSettled(o)'
    BY <1>2, <2>1 DEF OrderSettled, Held
  <2>3. ASSUME NEW p \in OrderIds \ {o}
        PROVE  OrderSettled(p)'
    BY <1>2, StaysSettled
  <2> QED BY <2>2, <2>3 DEF Settled
<1> QED BY <1>1, <1>2, <1>3, <1>4 DEF MovesOneOrder

\* Only a PROCESSING order can be failed.
LEMMA FailedWasProcessing ==
    ASSUME IInv, NEW o \in OrderIds, FailAndRefund(o)
    PROVE  status[o] = "PROCESSING" /\ status[o] \in Held /\ Refund(o)
<1>1. status[o] \in {"NONE", "PROCESSING", "COMPLETED", "REFUNDED"}
  BY DEF IInv, Settled, OrderSettled
<1> QED BY <1>1 DEF FailAndRefund, Allowed, Held

\* The worker's record stays well typed when a tick returns.
LEMMA LeaveType ==
    ASSUME TypeOK, NEW o \in OrderIds, NEW by, Leave(o, by)
    PROVE  worker' \in [pc : Positions, ids : SUBSET OrderIds]
BY DEF TypeOK, Leave, Idle, Positions

\* ... and never enters the hung loop.
LEMMA LeaveNotHung ==
    ASSUME NEW o \in OrderIds, NEW by, Leave(o, by), worker'.pc = "hung"
    PROVE  worker' = worker
BY DEF Leave, Idle

LEMMA PlaceExt ==
    ASSUME TypeOK, NEW o \in OrderIds, NEW placed \in BOOLEAN,
           NEW outcome \in Outcomes, Place(o, placed, outcome)
    PROVE  /\ ext' \in [OrderIds -> [Outcomes -> 0..MaxExt]]
           /\ \A p \in OrderIds :
                ext'[p]["answered"] \in Nat /\ ext'[p]["answered"] >= ext[p]["answered"]
           /\ placed /\ outcome = "answered" => ext'[o]["answered"] > 0
<1>1. /\ MaxExt \in Nat /\ MaxExt > 0 /\ "answered" \in Outcomes
      /\ ext \in [OrderIds -> [Outcomes -> 0..MaxExt]]
  BY WorkerAssumption DEF Outcomes, TypeOK
<1>2. ext[o] \in [Outcomes -> 0..MaxExt] /\ ext[o][outcome] \in 0..MaxExt
  BY <1>1
<1>3. PICK n : n = IF placed /\ ext[o][outcome] < MaxExt THEN ext[o][outcome] + 1
                   ELSE ext[o][outcome]
  OBVIOUS
<1>4. n \in 0..MaxExt /\ n >= ext[o][outcome] /\ (placed => n > 0)
  BY <1>1, <1>2, <1>3
<1>5. PICK row : row = [ext[o] EXCEPT ![outcome] = n]
  OBVIOUS
<1>6. /\ row \in [Outcomes -> 0..MaxExt] /\ row[outcome] = n
      /\ \A k \in Outcomes \ {outcome} : row[k] = ext[o][k]
  BY <1>2, <1>4, <1>5
<1>7. ext' = [ext EXCEPT ![o] = row]
  BY <1>3, <1>5 DEF Place
<1>8. /\ ext' \in [OrderIds -> [Outcomes -> 0..MaxExt]] /\ ext'[o] = row
      /\ \A p \in OrderIds \ {o} : ext'[p] = ext[p]
  BY <1>1, <1>6, <1>7
<1>9. \A p \in OrderIds : ext[p]["answered"] \in 0..MaxExt /\ ext'[p]["answered"] \in 0..MaxExt
  <2>1. SUFFICES ASSUME NEW p \in OrderIds
                 PROVE  ext[p]["answered"] \in 0..MaxExt /\ ext'[p]["answered"] \in 0..MaxExt
    OBVIOUS
  <2>2. ext[p] \in [Outcomes -> 0..MaxExt] /\ ext'[p] \in [Outcomes -> 0..MaxExt]
    BY <1>1, <1>8
  <2> QED BY <1>1, <2>2
<1>10. row["answered"] >= ext[o]["answered"]
  <2>1. CASE outcome = "answered"
    BY <1>4, <1>6, <2>1
  <2>2. CASE outcome # "answered"
    <3>1. row["answered"] = ext[o]["answered"] /\ ext[o]["answered"] \in 0..MaxExt
      BY <1>1, <1>6, <1>9, <2>2
    <3> QED BY <1>1, <3>1
  <2> QED BY <2>1, <2>2
<1>11. ASSUME NEW p \in OrderIds
       PROVE  ext'[p]["answered"] >= ext[p]["answered"]
  <2>1. CASE p = o
    BY <1>8, <1>10, <2>1
  <2>2. CASE p # o
    <3>1. ext'[p] = ext[p] /\ ext[p]["answered"] \in 0..MaxExt
      BY <1>8, <1>9, <2>2
    <3> QED BY <1>1, <3>1
  <2> QED BY <2>1, <2>2
<1>12. placed /\ outcome = "answered" => ext'[o]["answered"] > 0
  BY <1>4, <1>6, <1>8
<1> QED BY <1>1, <1>8, <1>9, <1>11, <1>12

LEMMA RefundTypes ==
    ASSUME IInv, NEW o \in OrderIds, status[o] \in Held,
           Refund(o), order' = order
    PROVE  /\ balance' \in [Users -> Nat]
           /\ status' \in [OrderIds -> Statuses]
           /\ earned' \in [OrderIds -> Nat]
<1>1. "REFUNDED" \in Statuses
  BY DEF Statuses, Allowed
<1>2. status \in [OrderIds -> Statuses] /\ earned \in [OrderIds -> Nat]
  BY DEF IInv, TypeOK
<1> QED BY <1>1, <1>2, RefundMoves

LEMMA ManualRefundStep ==
    ASSUME IInv, NEW o \in OrderIds, ManualRefund(o)
    PROVE  IInv' /\ MovesOneOrder
<1>1. status[o] \in Held /\ Refund(o) /\ order' = order
  BY DEF ManualRefund, Held
<1>2. TypeOK'
  <2>1. /\ balance' \in [Users -> Nat]
        /\ status' \in [OrderIds -> Statuses]
        /\ earned' \in [OrderIds -> Nat]
    BY <1>1, RefundTypes
  <2> QED BY <2>1 DEF ManualRefund, IInv, TypeOK
<1>3. Known' /\ Settled' /\ MovesOneOrder
  BY ExtNat, <1>1, RefundStep DEF ManualRefund, IInv, TypeOK, Locked
<1>4. HungRowsUnticked'
  BY DEF ManualRefund, IInv, HungRowsUnticked
<1> QED BY <1>2, <1>3, <1>4 DEF IInv

LEMMA TickNoLinkStep ==
    ASSUME IInv, NEW o \in OrderIds, NEW by, TickNoLink(o, by)
    PROVE  IInv' /\ MovesOneOrder
<1>1. status[o] \in Held /\ Refund(o) /\ order' = order
  BY FailedWasProcessing DEF TickNoLink
<1>2. TypeOK'
  <2>1. tasks' \subseteq OrderIds
    BY DEF TickNoLink, IInv, TypeOK
  <2>2. worker' \in [pc : Positions, ids : SUBSET OrderIds]
    BY LeaveType DEF TickNoLink, IInv
  <2>3. /\ balance' \in [Users -> Nat]
        /\ status' \in [OrderIds -> Statuses]
        /\ earned' \in [OrderIds -> Nat]
    BY <1>1, RefundTypes
  <2> QED BY <2>1, <2>2, <2>3 DEF TickNoLink, IInv, TypeOK
<1>3. Known' /\ Settled' /\ MovesOneOrder
  <2>1. \A p \in OrderIds : ext'[p]["answered"] \in Nat /\ ext'[p]["answered"] >= ext[p]["answered"]
    BY ExtNat DEF TickNoLink
  <2>2. tick'[o].by = "none"
    BY DEF TickNoLink, Locked
  <2> QED BY <1>1, <2>1, <2>2, RefundStep DEF TickNoLink
<1>4. HungRowsUnticked'
  BY LeaveNotHung DEF TickNoLink, IInv, HungRowsUnticked
<1> QED BY <1>2, <1>3, <1>4 DEF IInv

LEMMA FailHungStep ==
    ASSUME IInv, NEW o \in OrderIds, FailHung(o)
    PROVE  IInv' /\ MovesOneOrder
<1>1. status[o] \in Held /\ Refund(o) /\ order' = order
  BY FailedWasProcessing DEF FailHung
<1>2. tick[o].by = "none"
  BY DEF FailHung, IInv, HungRowsUnticked
<1>3. TypeOK'
  <2>1. worker' \in [pc : Positions, ids : SUBSET OrderIds]
    BY DEF FailHung, IInv, TypeOK
  <2>2. /\ balance' \in [Users -> Nat]
        /\ status' \in [OrderIds -> Statuses]
        /\ earned' \in [OrderIds -> Nat]
    BY <1>1, RefundTypes
  <2> QED BY <2>1, <2>2 DEF FailHung, IInv, TypeOK
<1>4. Known' /\ Settled' /\ MovesOneOrder
  BY ExtNat, <1>1, <1>2, RefundStep DEF FailHung, IInv, TypeOK
<1>5. HungRowsUnticked'
  BY DEF FailHung, IInv, TypeOK, HungRowsUnticked
<1> QED BY <1>3, <1>4, <1>5 DEF IInv

LEMMA TickFatalStep ==
    ASSUME IInv, NEW o \in OrderIds, NEW placed \in BOOLEAN,
           TickFatal(o, placed)
    PROVE  IInv' /\ MovesOneOrder
<1>1. status[o] \in Held /\ Refund(o) /\ order' = order
  BY FailedWasProcessing DEF TickFatal
<1>2. /\ tick' \in [OrderIds -> Ticks] /\ tick'[o].by = "none"
      /\ \A p \in OrderIds \ {o} : tick'[p] = tick[p]
  BY DEF TickFatal, Unlock, IInv, TypeOK, NoTick, Ticks
<1>3. TypeOK'
  <2>1. worker' \in [pc : Positions, ids : SUBSET OrderIds]
    BY LeaveType DEF TickFatal, IInv
  <2>2. ext' \in [OrderIds -> [Outcomes -> 0..MaxExt]]
    BY PlaceExt DEF TickFatal, IInv, Outcomes
  <2>3. /\ balance' \in [Users -> Nat]
        /\ status' \in [OrderIds -> Statuses]
        /\ earned' \in [OrderIds -> Nat]
    BY <1>1, RefundTypes
  <2> QED BY <1>2, <2>1, <2>2, <2>3 DEF TickFatal, IInv, TypeOK
<1>4. Known' /\ Settled' /\ MovesOneOrder
  BY <1>1, <1>2, RefundStep, PlaceExt DEF TickFatal, IInv, Outcomes
<1>5. HungRowsUnticked'
  BY <1>2, LeaveNotHung DEF TickFatal, IInv, TypeOK, HungRowsUnticked
<1> QED BY <1>3, <1>4, <1>5 DEF IInv

\* A step that settles nothing: what it may do to ticks, external ids and
\* attempt counts.
LEMMA QuietStep ==
    ASSUME IInv,
           UNCHANGED <<balance, lastId, order, status, earned, bought>>,
           \A p \in OrderIds :
             /\ tick'[p].by # "none" => status[p] = "PROCESSING"
             /\ extId'[p] => ext'[p]["answered"] > 0
             /\ attempts'[p] >= MaxRetries => status[p] = "REFUNDED"
    PROVE  Known' /\ Settled' /\ MovesOneOrder
<1>1. Known'
  BY DEF IInv, Known
<1>2. ASSUME NEW p \in OrderIds
      PROVE  OrderSettled(p)'
  <2>1. OrderSettled(p)
    BY DEF IInv, Settled
  <2>2. /\ Reward(order[p])' = Reward(order[p])
        /\ Recipient(order[p])' = Recipient(order[p])
    BY DEF Reward, Recipient
  <2> QED BY <2>1, <2>2 DEF OrderSettled
<1>3. MovesOneOrder
  BY NothingMoves DEF IInv
<1> QED BY <1>1, <1>2, <1>3 DEF Settled

\* What Settled says of the rows a quiet step may touch.
LEMMA SettledFacts ==
    ASSUME IInv, NEW p \in OrderIds
    PROVE  /\ tick[p].by # "none" => status[p] = "PROCESSING"
           /\ extId[p] => ext[p]["answered"] > 0
           /\ attempts[p] >= MaxRetries => status[p] = "REFUNDED"
BY DEF IInv, Settled, OrderSettled

LEMMA TickRetryableStep ==
    ASSUME IInv, NEW o \in OrderIds, NEW placed \in BOOLEAN,
           TickRetryable(o, placed)
    PROVE  IInv' /\ MovesOneOrder
<1>1. /\ tick' \in [OrderIds -> Ticks] /\ tick'[o].by = "none"
      /\ \A p \in OrderIds \ {o} : tick'[p] = tick[p]
  BY DEF TickRetryable, Unlock, IInv, TypeOK, NoTick, Ticks
<1>2. /\ attempts' \in [OrderIds -> Nat]
      /\ attempts'[o] = attempts[o] + 1
      /\ \A p \in OrderIds \ {o} : attempts'[p] = attempts[p]
  BY DEF TickRetryable, IInv, TypeOK
<1>3. /\ ext' \in [OrderIds -> [Outcomes -> 0..MaxExt]]
      /\ \A p \in OrderIds : ext'[p]["answered"] \in Nat /\ ext'[p]["answered"] >= ext[p]["answered"]
  BY PlaceExt DEF TickRetryable, IInv, Outcomes
<1>4. worker' \in [pc : Positions, ids : SUBSET OrderIds]
  BY LeaveType DEF TickRetryable, IInv
<1>5. HungRowsUnticked'
  BY <1>1, LeaveNotHung DEF TickRetryable, IInv, TypeOK, HungRowsUnticked
<1>6. CASE attempts[o] + 1 >= MaxRetries
  <2>1. status[o] \in Held /\ Refund(o) /\ order' = order
    BY <1>6, FailedWasProcessing DEF TickRetryable
  <2>2. /\ balance' \in [Users -> Nat]
        /\ status' \in [OrderIds -> Statuses]
        /\ earned' \in [OrderIds -> Nat]
    BY <2>1, RefundTypes
  <2>3. TypeOK'
    BY <1>1, <1>2, <1>3, <1>4, <2>2 DEF TickRetryable, IInv, TypeOK
  <2>4. Known' /\ Settled' /\ MovesOneOrder
    BY <1>1, <1>2, <1>3, <2>1, RefundStep DEF TickRetryable
  <2> QED BY <1>5, <2>3, <2>4 DEF IInv
<1>7. CASE ~(attempts[o] + 1 >= MaxRetries)
  <2>1. UNCHANGED <<balance, lastId, order, status, earned, bought, extId>>
    BY <1>7 DEF TickRetryable
  <2>2. TypeOK'
    BY <1>1, <1>2, <1>3, <1>4, <2>1 DEF TickRetryable, IInv, TypeOK
  <2>3. ASSUME NEW p \in OrderIds
        PROVE  /\ tick'[p].by # "none" => status[p] = "PROCESSING"
               /\ extId'[p] => ext'[p]["answered"] > 0
               /\ attempts'[p] >= MaxRetries => status[p] = "REFUNDED"
    <3>1. ext[p]["answered"] \in Nat
      BY ExtNat
    <3> QED BY <1>1, <1>2, <1>3, <1>7, <2>1, <3>1, SettledFacts
  <2>4. Known' /\ Settled' /\ MovesOneOrder
    BY <2>1, <2>3, QuietStep
  <2> QED BY <1>5, <2>2, <2>4 DEF IInv
<1> QED BY <1>6, <1>7

LEMMA TickDeliveredStep ==
    ASSUME IInv, NEW o \in OrderIds, TickDelivered(o)
    PROVE  IInv' /\ MovesOneOrder
<1>1. /\ tick' \in [OrderIds -> Ticks] /\ tick'[o].by = "none"
      /\ \A p \in OrderIds \ {o} : tick'[p] = tick[p]
  BY DEF TickDelivered, Unlock, IInv, TypeOK, NoTick, Ticks
<1>2. status[o] = "PROCESSING" /\ Complete(o) /\ order' = order
  BY SettledFacts DEF TickDelivered
<1>3. /\ balance' \in [Users -> Nat]
      /\ status' = [status EXCEPT ![o] = "COMPLETED"]
      /\ bought' = [bought EXCEPT ![o] = Recipient(order[o])]
      /\ earned' = [earned EXCEPT ![o] = Reward(order[o])]
      /\ Reward(order[o]) \in Nat
      /\ Recipient(order[o]) \in Users
      /\ \A u \in Users :
           balance'[u] - balance[u] = Moved(o, u)' - Moved(o, u)
  BY <1>2, CompleteMoves
<1>4. /\ status'[o] = "COMPLETED" /\ earned'[o] = Reward(order[o])
      /\ bought'[o] = Recipient(order[o])
      /\ \A p \in OrderIds \ {o} : /\ status'[p] = status[p]
                                   /\ earned'[p] = earned[p]
                                   /\ bought'[p] = bought[p]
  BY <1>3 DEF IInv, TypeOK
<1>5. /\ ext' \in [OrderIds -> [Outcomes -> 0..MaxExt]]
      /\ \A p \in OrderIds : ext'[p]["answered"] \in Nat /\ ext'[p]["answered"] >= ext[p]["answered"]
      /\ ext'[o]["answered"] > 0
  <2>1. Creating(o) \in BOOLEAN /\ Place(o, Creating(o), "answered")
    BY DEF Creating, TickDelivered
  <2>2. /\ ext' \in [OrderIds -> [Outcomes -> 0..MaxExt]]
        /\ \A p \in OrderIds : ext'[p]["answered"] \in Nat /\ ext'[p]["answered"] >= ext[p]["answered"]
        /\ Creating(o) => ext'[o]["answered"] > 0
    BY <2>1, PlaceExt DEF IInv, Outcomes
  <2>3. ~Creating(o) => ext[o]["answered"] > 0 /\ ext[o]["answered"] \in Nat
    BY SettledFacts, ExtNat DEF Creating
  <2> QED BY <2>2, <2>3
<1>6. /\ extId' \in [OrderIds -> BOOLEAN]
      /\ prov' \in [OrderIds -> Providers \cup {NoProvider}]
      /\ \A p \in OrderIds \ {o} : extId'[p] = extId[p]
  BY DEF TickDelivered, KeepExternalId, IInv, TypeOK, Ticks
<1>7. TypeOK'
  <2>1. worker' \in [pc : Positions, ids : SUBSET OrderIds]
    BY DEF TickDelivered, IInv, TypeOK, Positions
  <2>2. /\ status' \in [OrderIds -> Statuses]
        /\ bought' \in [OrderIds -> Users \cup {NoUser}]
        /\ earned' \in [OrderIds -> Nat]
    BY <1>3 DEF IInv, TypeOK, Statuses, Allowed
  <2> QED BY <1>1, <1>3, <1>5, <1>6, <2>1, <2>2
          DEF TickDelivered, IInv, TypeOK
<1>8. Known' /\ HungRowsUnticked'
  <2>1. Known'
    BY <1>2, <1>4 DEF IInv, Known
  <2>2. HungRowsUnticked'
    BY <1>1 DEF TickDelivered, IInv, TypeOK, HungRowsUnticked
  <2> QED BY <2>1, <2>2
<1>9. Settled'
  <2>1. OrderSettled(o)'
    <3>1. /\ Reward(order[o])' = Reward(order[o])
          /\ Recipient(order[o])' = Recipient(order[o])
      BY <1>2 DEF Reward, Recipient
    <3>2. OrderSettled(o) /\ lastId' = lastId /\ attempts' = attempts
      BY DEF IInv, Settled, TickDelivered
    <3> QED BY <1>1, <1>2, <1>4, <1>5, <3>1, <3>2 DEF OrderSettled
  <2>2. ASSUME NEW p \in OrderIds \ {o}
        PROVE  OrderSettled(p)'
    <3>1. UNCHANGED <<lastId, order, attempts>>
      BY DEF TickDelivered
    <3> QED BY <1>1, <1>4, <1>5, <1>6, <3>1, StaysSettled
  <2> QED BY <2>1, <2>2 DEF Settled
<1>10. MovesOneOrder
  BY <1>2, <1>3, <1>4 DEF MovesOneOrder
<1> QED BY <1>7, <1>8, <1>9, <1>10 DEF IInv

\* Ticks, sent messages, the worker's position and the links carry no money.
LEMMA TickPendingStep ==
    ASSUME IInv, NEW o \in OrderIds, TickPending(o)
    PROVE  IInv' /\ MovesOneOrder
<1>1. /\ tick' \in [OrderIds -> Ticks] /\ tick'[o].by = "none"
      /\ \A p \in OrderIds \ {o} : tick'[p] = tick[p]
  BY DEF TickPending, Unlock, IInv, TypeOK, NoTick, Ticks
<1>2. /\ ext' \in [OrderIds -> [Outcomes -> 0..MaxExt]]
      /\ \A p \in OrderIds : ext'[p]["answered"] \in Nat /\ ext'[p]["answered"] >= ext[p]["answered"]
      /\ ext'[o]["answered"] > 0
  <2>1. Creating(o) \in BOOLEAN /\ Place(o, Creating(o), "answered")
    BY DEF Creating, TickPending
  <2>2. /\ ext' \in [OrderIds -> [Outcomes -> 0..MaxExt]]
        /\ \A p \in OrderIds : ext'[p]["answered"] \in Nat /\ ext'[p]["answered"] >= ext[p]["answered"]
        /\ Creating(o) => ext'[o]["answered"] > 0
    BY <2>1, PlaceExt DEF IInv, Outcomes
  <2>3. ~Creating(o) => ext[o]["answered"] > 0 /\ ext[o]["answered"] \in Nat
    BY SettledFacts, ExtNat DEF Creating
  <2> QED BY <2>2, <2>3
<1>3. /\ extId' \in [OrderIds -> BOOLEAN]
      /\ prov' \in [OrderIds -> Providers \cup {NoProvider}]
      /\ \A p \in OrderIds \ {o} : extId'[p] = extId[p]
  BY DEF TickPending, KeepExternalId, IInv, TypeOK, Ticks
<1>4. worker' \in [pc : Positions, ids : SUBSET OrderIds]
  BY LeaveType DEF TickPending, IInv
<1>5. TypeOK'
  BY <1>1, <1>2, <1>3, <1>4 DEF TickPending, IInv, TypeOK
<1>6. HungRowsUnticked'
  BY <1>1, LeaveNotHung DEF TickPending, IInv, TypeOK, HungRowsUnticked
<1>7. UNCHANGED <<balance, lastId, order, status, earned, bought, attempts>>
  BY DEF TickPending
<1>8. ASSUME NEW p \in OrderIds
      PROVE  /\ tick'[p].by # "none" => status[p] = "PROCESSING"
             /\ extId'[p] => ext'[p]["answered"] > 0
             /\ attempts'[p] >= MaxRetries => status[p] = "REFUNDED"
  <2>1. ext[p]["answered"] \in Nat
    BY ExtNat
  <2> QED BY <1>1, <1>2, <1>3, <1>7, <2>1, SettledFacts
<1>9. Known' /\ Settled' /\ MovesOneOrder
  BY <1>7, <1>8, QuietStep
<1> QED BY <1>5, <1>6, <1>9 DEF IInv

LEMMA TickErrorStep ==
    ASSUME IInv, NEW o \in OrderIds, NEW placed \in BOOLEAN,
           TickError(o, placed)
    PROVE  IInv' /\ MovesOneOrder
<1>1. /\ tick' \in [OrderIds -> Ticks] /\ tick'[o].by = "none"
      /\ \A p \in OrderIds \ {o} : tick'[p] = tick[p]
  BY DEF TickError, Unlock, IInv, TypeOK, NoTick, Ticks
<1>2. /\ ext' \in [OrderIds -> [Outcomes -> 0..MaxExt]]
      /\ \A p \in OrderIds : ext'[p]["answered"] \in Nat /\ ext'[p]["answered"] >= ext[p]["answered"]
  BY PlaceExt DEF TickError, IInv, Outcomes
<1>3. worker' \in [pc : Positions, ids : SUBSET OrderIds]
  BY DEF TickError, IInv, TypeOK, Idle, Positions
<1>4. UNCHANGED dbVars
  BY DEF TickError
<1>5. TypeOK'
  BY <1>1, <1>2, <1>3, <1>4 DEF TickError, IInv, TypeOK, dbVars
<1>6. HungRowsUnticked'
  BY <1>1 DEF TickError, IInv, TypeOK, HungRowsUnticked, Idle
<1>7. ASSUME NEW p \in OrderIds
      PROVE  /\ tick'[p].by # "none" => status[p] = "PROCESSING"
             /\ extId'[p] => ext'[p]["answered"] > 0
             /\ attempts'[p] >= MaxRetries => status[p] = "REFUNDED"
  <2>1. ext[p]["answered"] \in Nat
    BY ExtNat
  <2> QED BY <1>1, <1>2, <1>4, <2>1, SettledFacts DEF dbVars
<1>8. Known' /\ Settled' /\ MovesOneOrder
  BY <1>4, <1>7, QuietStep DEF dbVars
<1> QED BY <1>5, <1>6, <1>8 DEF IInv

\* A tick opens only on a row the hung loop does not hold: the worker is in
\* its run loop, or the hung loop's session is closed.
LEMMA TickStartStep ==
    ASSUME IInv, NEW o \in OrderIds, NEW by \in {"task", "worker"},
           TickStart(o, by), ~BatchOpen
    PROVE  IInv' /\ MovesOneOrder
<1>1. LinkFor(o) \in Providers \cup {NoProvider}
  BY DEF LinkFor, PrimaryLink
<1>2. /\ tick' \in [OrderIds -> Ticks]
      /\ \A p \in OrderIds \ {o} : tick'[p] = tick[p]
  BY <1>1 DEF TickStart, IInv, TypeOK, Ticks
<1>3. TypeOK'
  BY <1>2 DEF TickStart, IInv, TypeOK, dbVars
<1>4. HungRowsUnticked'
  BY DEF TickStart, HungRowsUnticked, BatchOpen
<1>5. UNCHANGED dbVars /\ UNCHANGED ext /\ status[o] = "PROCESSING"
  BY DEF TickStart
<1>6. ASSUME NEW p \in OrderIds
      PROVE  /\ tick'[p].by # "none" => status[p] = "PROCESSING"
             /\ extId'[p] => ext'[p]["answered"] > 0
             /\ attempts'[p] >= MaxRetries => status[p] = "REFUNDED"
  BY <1>2, <1>5, SettledFacts DEF dbVars
<1>7. Known' /\ Settled' /\ MovesOneOrder
  BY <1>5, <1>6, QuietStep DEF dbVars
<1> QED BY <1>3, <1>4, <1>7 DEF IInv

\* A step that leaves the order rows and the ticks alone.
LEMMA StillStep ==
    ASSUME IInv,
           UNCHANGED <<balance, lastId, order, status, earned, bought, extId,
                       attempts, ext, tick>>
    PROVE  Known' /\ Settled' /\ MovesOneOrder
<1>1. ASSUME NEW p \in OrderIds
      PROVE  /\ tick'[p].by # "none" => status[p] = "PROCESSING"
             /\ extId'[p] => ext'[p]["answered"] > 0
             /\ attempts'[p] >= MaxRetries => status[p] = "REFUNDED"
  BY SettledFacts
<1> QED BY <1>1, QuietStep

LEMMA TickNoopStep ==
    ASSUME IInv, NEW o \in OrderIds, NEW by, TickNoop(o, by)
    PROVE  IInv' /\ MovesOneOrder
<1>1. worker' \in [pc : Positions, ids : SUBSET OrderIds]
  BY LeaveType DEF TickNoop, IInv
<1>2. TypeOK'
  BY <1>1 DEF TickNoop, IInv, TypeOK, dbVars
<1>3. HungRowsUnticked'
  BY LeaveNotHung DEF TickNoop, IInv, HungRowsUnticked
<1>4. Known' /\ Settled' /\ MovesOneOrder
  BY StillStep DEF TickNoop, dbVars
<1> QED BY <1>2, <1>3, <1>4 DEF IInv

\* The worker's steps that only move its position.
LEMMA WorkerMovesStep ==
    ASSUME IInv, UNCHANGED <<dbVars, tick, tasks, ext, sent, crashes>>,
           worker' \in [pc : Positions, ids : SUBSET OrderIds],
           HungRowsUnticked'
    PROVE  IInv' /\ MovesOneOrder
<1>1. TypeOK'
  BY DEF IInv, TypeOK, dbVars
<1>2. Known' /\ Settled' /\ MovesOneOrder
  BY StillStep DEF dbVars
<1> QED BY <1>1, <1>2 DEF IInv

LEMMA SelectHungStep ==
    ASSUME IInv, SelectHung
    PROVE  IInv' /\ MovesOneOrder
<1>1. PICK S \in SUBSET {o \in OrderIds : Polled(o) /\ old[o] /\ ~Locked(o)} :
        worker' = [pc |-> "hung", ids |-> S]
  BY DEF SelectHung
<1>2. UNCHANGED <<dbVars, tick, tasks, ext, sent, crashes>>
  BY DEF SelectHung
<1>3. HungRowsUnticked'
  BY <1>1, <1>2 DEF HungRowsUnticked, Locked
<1>4. worker' \in [pc : Positions, ids : SUBSET OrderIds]
  BY <1>1 DEF Positions
<1> QED BY <1>2, <1>3, <1>4, WorkerMovesStep

LEMMA ClaimProcessingStep ==
    ASSUME IInv, ClaimProcessing
    PROVE  IInv' /\ MovesOneOrder
<1>1. PICK ids \in SUBSET OrderIds :
        worker' = IF ids = {} THEN Idle ELSE [pc |-> "run", ids |-> ids]
  BY DEF ClaimProcessing
<1>2. UNCHANGED <<dbVars, tick, tasks, ext, sent, crashes>>
  BY DEF ClaimProcessing
<1>3. /\ HungRowsUnticked'
      /\ worker' \in [pc : Positions, ids : SUBSET OrderIds]
  BY <1>1 DEF HungRowsUnticked, Positions, Idle
<1> QED BY <1>2, <1>3, WorkerMovesStep

LEMMA NotifyReadStep ==
    ASSUME IInv, NEW o \in OrderIds, NotifyRead(o) \/ NotifyFail(o)
    PROVE  IInv' /\ MovesOneOrder
<1>1. UNCHANGED <<dbVars, tick, tasks, ext, sent, crashes>>
  BY DEF NotifyRead, NotifyFail
<1>2. worker' = [worker EXCEPT !.pc = "send"] \/ Leave(o, "worker")
  BY DEF NotifyRead, NotifyFail
<1>3. worker' \in [pc : Positions, ids : SUBSET OrderIds]
  BY <1>2, LeaveType DEF IInv, TypeOK, Positions
<1>4. HungRowsUnticked'
  <2>1. worker'.pc = "hung" => worker' = worker
    BY <1>2, LeaveNotHung DEF IInv, TypeOK
  <2> QED BY <1>1, <2>1 DEF IInv, HungRowsUnticked
<1> QED BY <1>1, <1>3, <1>4, WorkerMovesStep

LEMMA NotifySendStep ==
    ASSUME IInv, NEW o \in OrderIds, NotifySend(o)
    PROVE  IInv' /\ MovesOneOrder
<1>1. /\ worker' \in [pc : Positions, ids : SUBSET OrderIds]
      /\ sent' \in [OrderIds -> Nat]
  <2>1. /\ worker \in [pc : Positions, ids : SUBSET OrderIds] /\ sent \in [OrderIds -> Nat]
    BY DEF IInv, TypeOK
  <2> QED BY <2>1 DEF NotifySend, Positions
<1>2. TypeOK'
  BY <1>1 DEF NotifySend, IInv, TypeOK, dbVars
<1>3. HungRowsUnticked'
  BY DEF NotifySend, IInv, TypeOK, HungRowsUnticked
<1>4. Known' /\ Settled' /\ MovesOneOrder
  BY StillStep DEF NotifySend, dbVars
<1> QED BY <1>2, <1>3, <1>4 DEF IInv

LEMMA NotifyMarkStep ==
    ASSUME IInv, NEW o \in OrderIds, NotifyMark(o)
    PROVE  IInv' /\ MovesOneOrder
<1>1. worker' \in [pc : Positions, ids : SUBSET OrderIds]
  BY LeaveType DEF NotifyMark, IInv
<1>2. TypeOK'
  BY <1>1 DEF NotifyMark, IInv, TypeOK
<1>3. HungRowsUnticked'
  BY LeaveNotHung DEF NotifyMark, IInv, HungRowsUnticked
<1>4. Known' /\ Settled' /\ MovesOneOrder
  BY StillStep DEF NotifyMark
<1> QED BY <1>2, <1>3, <1>4 DEF IInv

LEMMA EditLinkStep ==
    ASSUME IInv, NEW g \in ApiGoods, NEW p \in Providers,
           NEW to \in {"on", "off", "absent"}, EditLink(g, p, to)
    PROVE  IInv' /\ MovesOneOrder
<1>1. links' \in [ApiGoods -> [Providers -> {"on", "off", "absent"}]]
  BY DEF EditLink, IInv, TypeOK
<1>2. TypeOK'
  BY <1>1 DEF EditLink, IInv, TypeOK
<1>3. HungRowsUnticked'
  BY DEF EditLink, IInv, HungRowsUnticked
<1>4. Known' /\ Settled' /\ MovesOneOrder
  BY StillStep DEF EditLink
<1> QED BY <1>2, <1>3, <1>4 DEF IInv

LEMMA AgeStep ==
    ASSUME IInv, NEW o \in OrderIds, Age(o)
    PROVE  IInv' /\ MovesOneOrder
<1>1. TypeOK'
  BY DEF Age, IInv, TypeOK
<1>2. HungRowsUnticked'
  BY DEF Age, IInv, HungRowsUnticked
<1>3. Known' /\ Settled' /\ MovesOneOrder
  BY StillStep DEF Age
<1> QED BY <1>1, <1>2, <1>3 DEF IInv

LEMMA CrashStep ==
    ASSUME IInv, Crash
    PROVE  IInv' /\ MovesOneOrder
<1>1. PICK reached \in SUBSET OrderIds :
        ext' = [o \in OrderIds |->
                  IF o \in reached /\ ext[o]["lost"] < MaxExt
                  THEN [ext[o] EXCEPT !["lost"] = @ + 1] ELSE ext[o]]
  BY DEF Crash
<1>9. ASSUME NEW p \in OrderIds
      PROVE  /\ ext'[p] \in [Outcomes -> 0..MaxExt]
             /\ ext'[p]["answered"] = ext[p]["answered"] /\ ext[p]["answered"] \in Nat
  <2>1. ext[p] \in [Outcomes -> 0..MaxExt] /\ MaxExt \in Nat
    BY WorkerAssumption DEF IInv, TypeOK
  <2>2. CASE p \in reached /\ ext[p]["lost"] < MaxExt
    <3>1. ext'[p] = [ext[p] EXCEPT !["lost"] = @ + 1] /\ ext[p]["lost"] + 1 \in 0..MaxExt
      BY <1>1, <2>1, <2>2 DEF Outcomes
    <3> QED BY <2>1, <3>1, ExtNat DEF Outcomes
  <2>3. CASE ~(p \in reached /\ ext[p]["lost"] < MaxExt)
    BY <1>1, <2>1, <2>3, ExtNat
  <2> QED BY <2>2, <2>3
<1>2. /\ ext' \in [OrderIds -> [Outcomes -> 0..MaxExt]]
      /\ \A p \in OrderIds : ext'[p]["answered"] \in Nat /\ ext'[p]["answered"] >= ext[p]["answered"]
  <2>1. ext' = [p \in OrderIds |-> ext'[p]]
    BY <1>1
  <2> QED BY <1>9, <2>1
<1>3. /\ tick' \in [OrderIds -> Ticks]
      /\ \A p \in OrderIds : tick'[p].by = "none"
      /\ worker' = Idle /\ UNCHANGED dbVars
  BY DEF Crash, Ticks, NoTick
<1>4. crashes' \in 0..MaxCrashes
  BY WorkerAssumption DEF Crash, IInv, TypeOK
<1>5. TypeOK'
  BY <1>2, <1>3, <1>4
     DEF Crash, IInv, TypeOK, dbVars, Idle, Positions
<1>6. HungRowsUnticked'
  BY <1>3 DEF HungRowsUnticked, Idle
<1>7. ASSUME NEW p \in OrderIds
      PROVE  /\ tick'[p].by # "none" => status[p] = "PROCESSING"
             /\ extId'[p] => ext'[p]["answered"] > 0
             /\ attempts'[p] >= MaxRetries => status[p] = "REFUNDED"
  <2>1. ext[p]["answered"] \in Nat
    BY ExtNat
  <2> QED BY <1>2, <1>3, <2>1, SettledFacts DEF dbVars
<1>8. Known' /\ Settled' /\ MovesOneOrder
  BY <1>3, <1>7, QuietStep DEF dbVars
<1> QED BY <1>5, <1>6, <1>8 DEF IInv

-----------------------------------------------------------------------------
(***************************************************************************)
(* The theorems                                                            *)
(***************************************************************************)

LEMMA WorkerStepKeeps ==
    ASSUME IInv, WorkerStep
    PROVE  IInv' /\ MovesOneOrder
<1>1. CASE SelectHung
  BY <1>1, SelectHungStep
<1>2. CASE ClaimProcessing
  BY <1>2, ClaimProcessingStep
<1>3. ASSUME NEW o \in OrderIds,
             \/ FailHung(o) \/ NotifyRead(o) \/ NotifySend(o)
             \/ NotifyFail(o) \/ NotifyMark(o)
      PROVE  IInv' /\ MovesOneOrder
  BY <1>3, FailHungStep, NotifyReadStep, NotifySendStep, NotifyMarkStep
<1>4. ASSUME NEW o \in OrderIds,
             \/ TickNoop(o, "worker") \/ TickNoLink(o, "worker")
             \/ TickStart(o, "worker")
      PROVE  IInv' /\ MovesOneOrder
  <2>1. TickStart(o, "worker") => ~BatchOpen
    BY DEF TickStart, MayTick, BatchOpen
  <2> QED BY <1>4, <2>1, TickNoopStep, TickNoLinkStep, TickStartStep
<1> QED BY <1>1, <1>2, <1>3, <1>4 DEF WorkerStep

LEMMA OtherStepKeeps ==
    ASSUME IInv, ~BatchOpen, OtherStep
    PROVE  IInv' /\ MovesOneOrder
<1>1. ASSUME NEW buy \in Purchases, BuyApi(buy) \/ BuyStock(buy)
      PROVE  IInv' /\ MovesOneOrder
  BY <1>1, BuyApiStep, BuyStockStep
<1>2. ASSUME NEW o \in OrderIds, ManualRefund(o) \/ Age(o)
      PROVE  IInv' /\ MovesOneOrder
  BY <1>2, ManualRefundStep, AgeStep
<1>3. ASSUME NEW o \in OrderIds, TaskStep(o)
      PROVE  IInv' /\ MovesOneOrder
  BY <1>3, TickNoopStep, TickNoLinkStep, TickStartStep DEF TaskStep
<1>4. ASSUME NEW o \in OrderIds, TickEnd(o)
      PROVE  IInv' /\ MovesOneOrder
  BY <1>4, TickDeliveredStep, TickPendingStep, TickRetryableStep,
     TickFatalStep, TickErrorStep DEF TickEnd
<1>5. ASSUME NEW g \in ApiGoods, NEW p \in Providers,
             NEW to \in {"on", "off", "absent"}, EditLink(g, p, to)
      PROVE  IInv' /\ MovesOneOrder
  BY <1>5, EditLinkStep
<1>6. CASE Crash
  BY <1>6, CrashStep
<1> QED BY <1>1, <1>2, <1>3, <1>4, <1>5, <1>6 DEF OtherStep

\* The invariant is inductive: every step keeps it, and balances.
LEMMA NextKeeps ==
    ASSUME IInv, [Next]_vars
    PROVE  IInv' /\ [MovesOneOrder]_vars
<1>1. CASE Next
  BY <1>1, WorkerStepKeeps, OtherStepKeeps DEF Next
<1>2. CASE UNCHANGED vars
  <2>1. UNCHANGED <<dbVars, tick, tasks, worker, ext, sent, crashes>>
    BY <1>2 DEF vars
  <2>2. /\ worker' \in [pc : Positions, ids : SUBSET OrderIds]
        /\ HungRowsUnticked'
    BY <2>1 DEF IInv, TypeOK, HungRowsUnticked
  <2> QED BY <1>2, <2>1, <2>2, WorkerMovesStep
<1> QED BY <1>1, <1>2

\* IInv holds in every reachable state.
THEOREM Invariance == Spec => []IInv
<1>1. IInv /\ [Next]_vars => IInv'
  BY NextKeeps
<1> QED BY <1>1, InitInv, PTL DEF Spec

\* No balance is ever negative and every variable keeps its type, whatever
\* the users, goods, providers, totals and bounds: the CHECK of the users
\* table never has to stop a purchase, a reward or an automatic refund.
THEOREM TypeCorrect == Spec => []TypeOK
<1>1. IInv => TypeOK
  BY DEF IInv
<1> QED BY <1>1, Invariance, PTL

\* Every committed order is settled, however the purchase-time task, the
\* worker, the operator, link edits and crashes interleave.
THEOREM AlwaysSettled == Spec => []Settled
<1>1. IInv => Settled
  BY DEF IInv
<1> QED BY <1>1, Invariance, PTL

\* Every step moves exactly the money of the one order it changes, so no
\* order is paid for, rewarded or refunded twice.
THEOREM BalancesMoveOnce == Spec => StepBalances
<1>1. IInv /\ [Next]_vars => [MovesOneOrder]_vars
  BY NextKeeps
<1> QED BY <1>1, Invariance, PTL DEF Spec, StepBalances

-----------------------------------------------------------------------------
(***************************************************************************)
(* One answered order.  The answer of a provider and the id it leaves on   *)
(* the order's row are committed together, and the next tick reads the id. *)
(***************************************************************************)

Recorded == \A o \in OrderIds : ext[o]["answered"] > 0 => extId[o]

\* A step keeps what is recorded, and places no further order for it.
PlacesNoMore ==
    /\ \A o \in OrderIds : ext[o]["answered"] > 0 => ext'[o] = ext[o]
    /\ \A o \in OrderIds : extId[o] => extId'[o]
    /\ \A o \in OrderIds : ext'[o]["answered"] > ext[o]["answered"] => extId'[o]

LEMMA RecordedStays ==
    ASSUME IInv, UNCHANGED <<ext, extId>>
    PROVE  PlacesNoMore
<1>1. ASSUME NEW o \in OrderIds
      PROVE  /\ ext'[o] = ext[o] /\ extId'[o] = extId[o]
             /\ ~(ext'[o]["answered"] > ext[o]["answered"])
  <2>1. ext'[o] = ext[o] /\ ext[o]["answered"] \in Nat
    BY ExtNat
  <2> QED BY <2>1
<1> QED BY <1>1 DEF PlacesNoMore

\* A call that kept its id, or whose answer is not known.
LEMMA RecordedTick ==
    ASSUME IInv, Recorded, NEW o \in OrderIds, NEW placed \in BOOLEAN, placed => Creating(o),
           NEW outcome \in Outcomes, Place(o, placed, outcome),
           \/ KeepExternalId(o)
           \/ outcome = "lost" /\ UNCHANGED extId
    PROVE  PlacesNoMore
<1>1. /\ ext \in [OrderIds -> [Outcomes -> 0..MaxExt]] /\ extId \in [OrderIds -> BOOLEAN]
      /\ MaxExt \in Nat
  BY WorkerAssumption DEF IInv, TypeOK
<1>2. ASSUME NEW q \in OrderIds
      PROVE  /\ ext[q]["answered"] > 0 => ext'[q] = ext[q]
             /\ extId[q] => extId'[q]
             /\ ext'[q]["answered"] > ext[q]["answered"] => extId'[q]
  <2>1. CASE q # o
    <3>1. ext'[q] = ext[q] /\ extId'[q] = extId[q]
      BY <1>1, <2>1 DEF Place, KeepExternalId
    <3> QED BY <3>1, ExtNat
  <2>2. CASE q = o
    <3>1. extId[o] => extId'[o]
      BY <1>1 DEF KeepExternalId
    <3>2. ext[o]["answered"] > 0 => ext'[o] = ext[o]
      <4>1. SUFFICES ASSUME ext[o]["answered"] > 0 PROVE ext'[o] = ext[o]
        OBVIOUS
      <4>2. ~placed
        BY <4>1 DEF Recorded, Creating
      <4> QED BY <1>1, <4>2 DEF Place
    <3>3. CASE KeepExternalId(o)
      <4>1. extId'[o]
        BY <1>1, <3>3 DEF KeepExternalId
      <4> QED BY <2>2, <3>1, <3>2, <4>1
    <3>4. CASE outcome = "lost"
      <4>1. ext'[o]["answered"] = ext[o]["answered"] /\ ext[o]["answered"] \in Nat
        BY <1>1, <3>4, ExtNat DEF Place, Outcomes
      <4> QED BY <2>2, <3>1, <3>2, <4>1
    <3> QED BY <3>3, <3>4
  <2> QED BY <2>1, <2>2
<1> QED BY <1>2 DEF PlacesNoMore

LEMMA RecordedTickEnd ==
    ASSUME IInv, Recorded, NEW o \in OrderIds, TickEnd(o)
    PROVE  PlacesNoMore
<1>1. Creating(o) \in BOOLEAN /\ "answered" \in Outcomes /\ "lost" \in Outcomes
  BY DEF IInv, TypeOK, Creating, Outcomes
<1>2. CASE TickDelivered(o)
  BY <1>1, <1>2, RecordedTick DEF TickDelivered
<1>3. CASE TickPending(o)
  BY <1>1, <1>3, RecordedTick DEF TickPending
<1>4. ASSUME NEW placed \in BOOLEAN,
             TickRetryable(o, placed) \/ TickFatal(o, placed) \/ TickError(o, placed)
      PROVE  PlacesNoMore
  <2>1. (placed => Creating(o)) /\ Place(o, placed, "lost") /\ UNCHANGED extId
    BY <1>4 DEF TickRetryable, TickFatal, TickError, dbVars
  <2> QED BY <1>1, <2>1, RecordedTick
<1> QED BY <1>2, <1>3, <1>4 DEF TickEnd

\* The process dies during calls that were creating: their orders had no id.
LEMMA RecordedCrash ==
    ASSUME IInv, Recorded, Crash
    PROVE  PlacesNoMore
<1>1. PICK reached \in SUBSET {o \in OrderIds : tick[o].by # "none" /\ Creating(o)} :
        ext' = [o \in OrderIds |->
                  IF o \in reached /\ ext[o]["lost"] < MaxExt
                  THEN [ext[o] EXCEPT !["lost"] = @ + 1] ELSE ext[o]]
  BY DEF Crash
<1>2. ext \in [OrderIds -> [Outcomes -> 0..MaxExt]] /\ UNCHANGED extId
  BY DEF IInv, TypeOK, Crash, dbVars
<1>3. ASSUME NEW q \in OrderIds
      PROVE  /\ ext[q]["answered"] > 0 => ext'[q] = ext[q]
             /\ ext'[q]["answered"] = ext[q]["answered"] /\ ext[q]["answered"] \in Nat
  <2>1. CASE q \in reached
    <3>1. ~(ext[q]["answered"] > 0)
      BY <2>1 DEF Recorded, Creating
    <3>2. ext'[q]["answered"] = ext[q]["answered"]
      BY <1>1, <1>2 DEF Outcomes
    <3> QED BY <3>1, <3>2, ExtNat
  <2>2. CASE q \notin reached
    <3>1. ext'[q] = ext[q]
      BY <1>1, <2>2
    <3> QED BY <3>1, ExtNat
  <2> QED BY <2>1, <2>2
<1> QED BY <1>2, <1>3 DEF PlacesNoMore

LEMMA RecordedKept ==
    ASSUME IInv, Recorded, [Next]_vars
    PROVE  PlacesNoMore
<1>1. CASE WorkerStep
  BY <1>1, RecordedStays
     DEF WorkerStep, SelectHung, ClaimProcessing, FailHung, TickNoop, TickNoLink, TickStart,
         NotifyRead, NotifySend, NotifyFail, NotifyMark, dbVars
<1>2. ASSUME NEW buy \in Purchases, BuyApi(buy) \/ BuyStock(buy)
      PROVE  PlacesNoMore
  BY <1>2, RecordedStays DEF BuyApi, BuyStock
<1>3. ASSUME NEW o \in OrderIds, ManualRefund(o) \/ TaskStep(o) \/ Age(o)
      PROVE  PlacesNoMore
  BY <1>3, RecordedStays
     DEF ManualRefund, TaskStep, Age, TickNoop, TickNoLink, TickStart, dbVars
<1>4. ASSUME NEW o \in OrderIds, TickEnd(o)
      PROVE  PlacesNoMore
  BY <1>4, RecordedTickEnd
<1>5. ASSUME NEW g \in ApiGoods, NEW p \in Providers,
             NEW to \in {"on", "off", "absent"}, EditLink(g, p, to)
      PROVE  PlacesNoMore
  BY <1>5, RecordedStays DEF EditLink
<1>6. CASE Crash
  BY <1>6, RecordedCrash
<1>7. CASE UNCHANGED vars
  BY <1>7, RecordedStays DEF vars, dbVars
<1> QED BY <1>1, <1>2, <1>3, <1>4, <1>5, <1>6, <1>7 DEF Next, OtherStep

LEMMA RecordedNext ==
    ASSUME IInv, IInv', Recorded, PlacesNoMore
    PROVE  Recorded'
<1>1. SUFFICES ASSUME NEW o \in OrderIds, ext'[o]["answered"] > 0 PROVE extId'[o]
  BY DEF Recorded
<1>2. ext[o]["answered"] \in Nat /\ ext'[o]["answered"] \in Nat
  BY ExtNat, ExtNatNext
<1>3. CASE ext[o]["answered"] > 0
  BY <1>3 DEF Recorded, PlacesNoMore
<1>4. CASE ~(ext[o]["answered"] > 0)
  <2>1. ext'[o]["answered"] > ext[o]["answered"]
    BY <1>1, <1>2, <1>4
  <2> QED BY <2>1 DEF PlacesNoMore
<1> QED BY <1>3, <1>4

\* Once a provider has answered with an order's id, no order is placed for it
\* again, for any number of providers, link edits, retries and crashes: the id
\* is on the row before anybody else can tick the order.
THEOREM AnsweredOnce == Spec => PlacedNoMore
<1>1. Init => Recorded
  BY DEF Init, Recorded, Outcomes
<1>2. IInv /\ IInv' /\ Recorded /\ [Next]_vars => Recorded'
  BY RecordedKept, RecordedNext
<1>3. IInv /\ Recorded /\ [Next]_vars
      => [\A o \in OrderIds : ext[o]["answered"] > 0 => ext'[o] = ext[o]]_vars
  BY RecordedKept DEF PlacesNoMore
<1> QED BY <1>1, <1>2, <1>3, Invariance, PTL DEF Spec, PlacedNoMore
-----------------------------------------------------------------------------
(***************************************************************************)
(* The books.  Every step changes one term of the sum by what it changes   *)
(* the balance (MovesOneOrder), so the sum over all orders stays right.    *)
(***************************************************************************)

MoneyOf(u) == [o \in OrderIds |-> Moved(o, u)]

LEMMA OrderIdsFinite == IsFiniteSet(OrderIds)
BY WorkerAssumption, FS_Interval DEF OrderIds

LEMMA BooksBalanceIs ==
    BooksBalance <=> \A u \in Users : balance[u] = Funds[u] + SumFunctionOnSet(MoneyOf(u), OrderIds)
BY DEF BooksBalance, MoneyOf

LEMMA BooksBalanceNextIs ==
    BooksBalance' <=> \A u \in Users : balance'[u] = Funds[u] + SumFunctionOnSet(MoneyOf(u)', OrderIds)
BY DEF BooksBalance, MoneyOf

LEMMA MovedInt ==
    ASSUME TypeOK, NEW o \in OrderIds, NEW u \in Users
    PROVE  Moved(o, u) \in Int
<1>1. order[o].total \in Nat /\ earned[o] \in Nat
  BY DEF TypeOK, OrderRows
<1> QED BY <1>1 DEF Moved, ToBuyer, ToReferrer

LEMMA BooksStep ==
    ASSUME IInv, IInv', BooksBalance, MovesOneOrder
    PROVE  BooksBalance'
<1> SUFFICES ASSUME NEW u \in Users
             PROVE  balance'[u] = Funds[u] + SumFunctionOnSet(MoneyOf(u)', OrderIds)
  BY BooksBalanceNextIs
<1>1. PICK o \in OrderIds :
        /\ balance'[u] - balance[u] = Moved(o, u)' - Moved(o, u)
        /\ \A p \in OrderIds \ {o} :
             order'[p] = order[p] /\ status'[p] = status[p] /\ earned'[p] = earned[p]
  BY DEF MovesOneOrder
<1> DEFINE f == MoneyOf(u)
           g == MoneyOf(u)'
<1>2. \A p \in OrderIds : f[p] = Moved(p, u) /\ g[p] = Moved(p, u)'
  BY DEF MoneyOf
<1>3. \A p \in OrderIds : Moved(p, u) \in Int
  BY MovedInt DEF IInv
<1>4. \A p \in OrderIds : Moved(p, u)' \in Int
  <2>1. TypeOK'
    BY DEF IInv
  <2>2. ASSUME NEW p \in OrderIds PROVE order'[p].total \in Nat /\ earned'[p] \in Nat
    BY <2>1 DEF TypeOK, OrderRows
  <2> QED BY <2>2 DEF Moved, ToBuyer, ToReferrer
<1>5. \A p \in OrderIds \ {o} : g[p] = f[p]
  <2>1. ASSUME NEW p \in OrderIds \ {o} PROVE Moved(p, u)' = Moved(p, u)
    BY <1>1 DEF Moved, ToBuyer, ToReferrer
  <2> QED BY <1>2, <2>1
<1>6. balance[u] = Funds[u] + SumFunctionOnSet(f, OrderIds)
  BY BooksBalanceIs
<1>7. balance[u] \in Nat /\ balance'[u] \in Nat /\ Funds[u] \in Nat
  BY UsersAssumption DEF IInv, TypeOK
<1>8. /\ balance'[u] - balance[u] = g[o] - f[o]
      /\ \A p \in OrderIds : f[p] \in Int /\ g[p] \in Int
  BY <1>1, <1>2, <1>3, <1>4
<1> HIDE DEF f, g
<1>9. SumFunctionOnSet(g, OrderIds) = SumFunctionOnSet(f, OrderIds) + g[o] - f[o]
  BY <1>5, <1>8, OrderIdsFinite, SumChange
<1>10. SumFunctionOnSet(f, OrderIds) \in Int
  BY <1>8, OrderIdsFinite, SumType
<1>11. f[o] \in Int /\ g[o] \in Int
  BY <1>8
<1>12. balance'[u] = Funds[u] + SumFunctionOnSet(g, OrderIds)
  BY ONLY <1>6, <1>7, <1>8, <1>9, <1>10, <1>11
<1> QED BY <1>12 DEF g

\* After any number of purchases, deliveries, rewards and refunds a balance is
\* what the user started with, less the totals of the orders that are paid
\* and not refunded, plus the rewards of their referrals' completed orders
\* (BooksBalance).
THEOREM BooksAlwaysBalance == Spec => []BooksBalance
<1>1. Init => BooksBalance
  <2> SUFFICES ASSUME Init, NEW u \in Users
               PROVE  balance[u] = Funds[u] + SumFunctionOnSet(MoneyOf(u), OrderIds)
    BY BooksBalanceIs
  <2>1. \A o \in OrderIds : MoneyOf(u)[o] = 0
    BY DEF Init, MoneyOf, Moved, Held
  <2>2. SumFunctionOnSet(MoneyOf(u), OrderIds) = 0
    BY <2>1, OrderIdsFinite, SumZero
  <2> QED BY <2>2, UsersAssumption DEF Init
<1>2. IInv /\ BooksBalance /\ [Next]_vars => BooksBalance'
  <2> SUFFICES ASSUME IInv, BooksBalance, [Next]_vars PROVE BooksBalance'
    OBVIOUS
  <2>1. CASE UNCHANGED vars
    <3>1. UNCHANGED <<balance, order, status, earned>>
      BY <2>1 DEF vars, dbVars
    <3> QED BY <3>1 DEF BooksBalance, Moved, ToBuyer, ToReferrer
  <2>2. CASE ~UNCHANGED vars
    BY <2>2, BooksStep, NextKeeps
  <2> QED BY <2>1, <2>2
<1> QED BY <1>1, <1>2, Invariance, PTL DEF Spec
-----------------------------------------------------------------------------
(***************************************************************************)
(* One delivery message                                                    *)
(***************************************************************************)

\* An order that is completed or refunded is never PROCESSING again.
Over(o) == status[o] \in {"COMPLETED", "REFUNDED"}

\* SentOnce is not inductive: it needs that the worker announces only the
\* order it has just completed itself, that this one was not announced
\* before, and that what was announced is never polled again, which is all
\* that stands between a crash before delivery_notified_at and a second
\* message.
SentInv ==
    \A o \in OrderIds :
      /\ sent[o] <= 1
      /\ sent[o] > 0 => Over(o)
      /\ worker.pc \in {"notify", "send"} /\ Current(o) => sent[o] = 0 /\ Over(o)
      /\ tick[o].by = "worker" => worker.pc = "run" /\ Current(o)

LEMMA CurrentUnique ==
    ASSUME TypeOK, NEW o \in OrderIds, NEW p \in OrderIds, Current(o), Current(p)
    PROVE  o = p
BY WorkerAssumption DEF Current, OrderIds

\* Statuses only go forward.
LEMMA OverStays ==
    ASSUME IInv, [Next]_vars, NEW o \in OrderIds, Over(o)
    PROVE  Over(o)'
<1>0. /\ status \in [OrderIds -> Statuses]
      /\ \A p \in OrderIds : status[p] = "NONE" <=> p > lastId
      /\ \A p \in OrderIds : tick[p].by # "none" => status[p] = "PROCESSING"
      /\ lastId \in Nat
  BY DEF IInv, TypeOK, Settled, OrderSettled
<1>1. CASE UNCHANGED status
  BY <1>1 DEF Over
<1>2. ASSUME NEW p \in OrderIds, status' = [status EXCEPT ![p] = "COMPLETED"]
      PROVE  Over(o)'
  BY <1>0, <1>2 DEF Over
<1>3. ASSUME NEW p \in OrderIds, status' = [status EXCEPT ![p] = "REFUNDED"]
      PROVE  Over(o)'
  BY <1>0, <1>3 DEF Over
<1>4. ASSUME NEW buy \in Purchases, BuyApi(buy) \/ BuyStock(buy)
      PROVE  Over(o)'
  <2>1. o # lastId + 1
    BY <1>0 DEF Over, OrderIds
  <2>2. status'[o] = status[o]
    BY <1>0, <1>4, <2>1 DEF BuyApi, BuyStock
  <2> QED BY <2>2 DEF Over
<1>5. CASE WorkerStep
  <2>1. ASSUME NEW p \in OrderIds, FailHung(p) \/ TickNoLink(p, "worker")
        PROVE  Over(o)'
    BY <1>3, <2>1 DEF FailHung, TickNoLink, FailAndRefund, Refund
  <2> QED BY <1>1, <1>5, <2>1
      DEF WorkerStep, SelectHung, ClaimProcessing, TickNoop, TickStart, NotifyRead,
          NotifySend, NotifyFail, NotifyMark, dbVars
<1>6. ASSUME NEW p \in OrderIds, ManualRefund(p) \/ TaskStep(p) \/ Age(p)
      PROVE  Over(o)'
  <2>1. CASE ManualRefund(p) \/ TickNoLink(p, "task")
    BY <1>3, <2>1 DEF ManualRefund, TickNoLink, FailAndRefund, Refund
  <2> QED BY <1>1, <1>6, <2>1 DEF TaskStep, TickNoop, TickStart, Age, dbVars
<1>7. ASSUME NEW p \in OrderIds, TickEnd(p)
      PROVE  Over(o)'
  <2>1. CASE TickDelivered(p)
    BY <1>2, <2>1 DEF TickDelivered, Complete
  <2>2. CASE TickPending(p)
    BY <1>1, <2>2 DEF TickPending
  <2>3. ASSUME NEW placed \in BOOLEAN, TickRetryable(p, placed) \/ TickFatal(p, placed)
        PROVE  Over(o)'
    BY <1>1, <1>3, <2>3 DEF TickRetryable, TickFatal, FailAndRefund, Refund
  <2>4. ASSUME NEW placed \in BOOLEAN, TickError(p, placed)
        PROVE  Over(o)'
    BY <1>1, <2>4 DEF TickError, dbVars
  <2> QED BY <1>7, <2>1, <2>2, <2>3, <2>4 DEF TickEnd
<1> QED BY <1>1, <1>4, <1>5, <1>6, <1>7 DEF Next, OtherStep, EditLink, Crash, vars, dbVars

\* A step that sends nothing, and leaves the worker and its open tick where
\* they were.
LEMMA SentStays ==
    ASSUME SentInv, \A o \in OrderIds : Over(o) => Over(o)', UNCHANGED <<sent, worker>>,
           \A o \in OrderIds : tick'[o].by = "worker" => tick[o].by = "worker"
    PROVE  SentInv'
BY DEF SentInv, Current

\* A step that sends nothing and takes the worker where nothing is announced.
LEMMA SentQuiet ==
    ASSUME SentInv, \A o \in OrderIds : Over(o) => Over(o)', UNCHANGED sent,
           worker'.pc \notin {"notify", "send"},
           \A o \in OrderIds : tick'[o].by # "worker"
    PROVE  SentInv'
BY DEF SentInv

\* The worker's pc after Leave.
LEMMA LeaveGoes ==
    ASSUME NEW o, Leave(o, "worker")
    PROVE  worker'.pc \notin {"notify", "send"}
BY DEF Leave, Idle

\* Between two ticks of the worker no row is locked by one of its sessions.
LEMMA NoWorkerTick ==
    ASSUME SentInv, TypeOK, \/ worker.pc # "run"
                            \/ \E p \in OrderIds : Current(p) /\ tick[p].by # "worker"
    PROVE  \A o \in OrderIds : tick[o].by # "worker"
BY CurrentUnique DEF SentInv

LEMMA SentWorkerStep ==
    ASSUME IInv, SentInv, WorkerStep, \A o \in OrderIds : Over(o) => Over(o)'
    PROVE  SentInv'
<1>0. TypeOK /\ tick \in [OrderIds -> Ticks] /\ sent \in [OrderIds -> Nat]
      /\ worker \in [pc : Positions, ids : SUBSET OrderIds]
  BY DEF IInv, TypeOK
<1>1. CASE SelectHung \/ ClaimProcessing
  <2>1. worker.pc # "run" /\ UNCHANGED <<tick, sent>>
    BY <1>1 DEF SelectHung, ClaimProcessing
  <2>2. worker'.pc \notin {"notify", "send"}
    <3>1. ASSUME NEW S, worker' = [pc |-> "hung", ids |-> S] \/ worker' = [pc |-> "run", ids |-> S]
          PROVE  worker'.pc \notin {"notify", "send"}
      BY <3>1
    <3>2. CASE worker' = Idle
      BY <3>2 DEF Idle
    <3> QED BY <1>1, <3>1, <3>2 DEF SelectHung, ClaimProcessing
  <2> QED BY <1>0, <2>1, <2>2, NoWorkerTick, SentQuiet
<1>2. ASSUME NEW o \in OrderIds, FailHung(o) PROVE SentInv'
  <2>1. worker.pc = "hung" /\ worker'.pc = "hung" /\ UNCHANGED <<tick, sent>>
    BY <1>0, <1>2 DEF FailHung
  <2> QED BY <1>0, <2>1, NoWorkerTick, SentQuiet
<1>3. ASSUME NEW o \in OrderIds, TickNoop(o, "worker") \/ TickNoLink(o, "worker") PROVE SentInv'
  <2>1. Current(o) /\ tick[o].by = "none" /\ UNCHANGED <<tick, sent>> /\ Leave(o, "worker")
    BY <1>3 DEF TickNoop, TickNoLink, MayTick, Current, Locked
  <2> QED BY <1>0, <2>1, NoWorkerTick, SentQuiet, LeaveGoes
<1>4. ASSUME NEW o \in OrderIds, TickStart(o, "worker") PROVE SentInv'
  <2>1. /\ worker.pc = "run" /\ Current(o) /\ UNCHANGED <<worker, sent>>
        /\ tick' = [tick EXCEPT ![o] = [by |-> "worker", via |-> LinkFor(o)]]
    BY <1>4 DEF TickStart, MayTick, Current
  <2>2. \A p \in OrderIds : tick'[p].by = "worker" => worker'.pc = "run" /\ Current(p)'
    BY <1>0, <2>1 DEF SentInv, Current
  <2> QED BY <2>1, <2>2 DEF SentInv
<1>5. ASSUME NEW o \in OrderIds, NotifyRead(o) PROVE SentInv'
  <2>1. worker.pc = "notify" /\ UNCHANGED <<tick, sent>>
    BY <1>5 DEF NotifyRead
  <2>2. \A p \in OrderIds : tick[p].by # "worker"
    BY <1>0, <2>1, NoWorkerTick
  <2>3. CASE Leave(o, "worker")
    BY <2>1, <2>2, <2>3, LeaveGoes, SentQuiet
  <2>4. CASE worker' = [worker EXCEPT !.pc = "send"]
    <3>1. \A p \in OrderIds : Current(p)' <=> Current(p)
      BY <1>0, <2>4 DEF Current
    <3> QED BY <2>1, <2>2, <3>1 DEF SentInv
  <2> QED BY <1>5, <2>3, <2>4 DEF NotifyRead
<1>6. ASSUME NEW o \in OrderIds, NotifySend(o) PROVE SentInv'
  <2>1. /\ worker.pc = "send" /\ Current(o) /\ UNCHANGED tick
        /\ sent' = [sent EXCEPT ![o] = @ + 1] /\ worker'.pc = "mark"
    BY <1>0, <1>6 DEF NotifySend
  <2>2. sent[o] = 0 /\ Over(o)
    BY <2>1 DEF SentInv
  <2>3. \A p \in OrderIds : tick[p].by # "worker"
    BY <1>0, <2>1, NoWorkerTick
  <2>4. \A p \in OrderIds : sent'[p] <= 1 /\ (sent'[p] > 0 => Over(p))
    BY <1>0, <2>1, <2>2 DEF SentInv
  <2> QED BY <2>1, <2>3, <2>4 DEF SentInv
<1>7. ASSUME NEW o \in OrderIds, NotifyFail(o) \/ NotifyMark(o) PROVE SentInv'
  <2>1. worker.pc # "run" /\ Leave(o, "worker") /\ UNCHANGED <<tick, sent>>
    BY <1>7 DEF NotifyFail, NotifyMark
  <2> QED BY <1>0, <2>1, NoWorkerTick, SentQuiet, LeaveGoes
<1> QED BY <1>1, <1>2, <1>3, <1>4, <1>5, <1>6, <1>7 DEF WorkerStep

LEMMA SentTickEnd ==
    ASSUME IInv, SentInv, NEW o \in OrderIds, TickEnd(o), \A p \in OrderIds : Over(p) => Over(p)'
    PROVE  SentInv'
<1>0. TypeOK /\ tick \in [OrderIds -> Ticks] /\ sent \in [OrderIds -> Nat]
      /\ worker \in [pc : Positions, ids : SUBSET OrderIds] /\ OrderSettled(o)
  BY DEF IInv, TypeOK, Settled
<1>1. UNCHANGED sent /\ tick' = [tick EXCEPT ![o] = NoTick] /\ tick[o].by # "none"
  BY DEF TickEnd, TickDelivered, TickPending, TickRetryable, TickFatal, TickError, Unlock
<1>2. \A p \in OrderIds : tick'[p].by = "worker" => tick[p].by = "worker"
  BY <1>0, <1>1 DEF NoTick
<1>3. CASE tick[o].by # "worker"
  <2>1. UNCHANGED worker
    BY <1>3 DEF TickEnd, TickDelivered, TickPending, TickRetryable, TickFatal, TickError, Leave
  <2> QED BY <1>1, <1>2, <2>1, SentStays
<1>4. CASE tick[o].by = "worker"
  <2>1. worker.pc = "run" /\ Current(o)
    BY <1>4 DEF SentInv
  <2>2. \A p \in OrderIds : tick'[p].by # "worker"
    BY <1>0, <1>1, <2>1, CurrentUnique DEF SentInv, NoTick
  <2>3. CASE TickDelivered(o)
    <3>1. worker' = [worker EXCEPT !.pc = "notify"]
      BY <1>4, <2>3 DEF TickDelivered
    <3>2. status'[o] = "COMPLETED" /\ status[o] = "PROCESSING"
      BY <1>0, <1>1, <2>3 DEF TickDelivered, Complete, TypeOK, OrderSettled
    <3>3. sent[o] = 0 /\ Over(o)'
      BY <1>0, <3>2 DEF SentInv, Over
    <3>4. \A p \in OrderIds : Current(p)' => p = o
      BY <1>0, <2>1, <3>1, CurrentUnique DEF Current
    <3> QED BY <1>1, <2>2, <3>3, <3>4 DEF SentInv
  <2>4. CASE ~TickDelivered(o)
    <3>1. worker' = Idle \/ Leave(o, "worker")
      BY <1>4, <2>4 DEF TickEnd, TickPending, TickRetryable, TickFatal, TickError
    <3>2. worker'.pc \notin {"notify", "send"}
      BY <3>1, LeaveGoes DEF Idle
    <3> QED BY <1>1, <2>2, <3>2, SentQuiet
  <2> QED BY <2>3, <2>4
<1> QED BY <1>3, <1>4

LEMMA SentStep ==
    ASSUME IInv, SentInv, [Next]_vars
    PROVE  SentInv'
<1>0. \A o \in OrderIds : Over(o) => Over(o)'
  BY OverStays
<1>t. tick \in [OrderIds -> Ticks]
  BY DEF IInv, TypeOK
<1>1. CASE WorkerStep
  BY <1>0, <1>1, SentWorkerStep
<1>2. ASSUME NEW buy \in Purchases, BuyApi(buy) \/ BuyStock(buy) PROVE SentInv'
  BY <1>0, <1>2, SentStays DEF BuyApi, BuyStock
<1>3. ASSUME NEW o \in OrderIds, ManualRefund(o) \/ Age(o) PROVE SentInv'
  BY <1>0, <1>3, SentStays DEF ManualRefund, Age
<1>4. ASSUME NEW o \in OrderIds, TaskStep(o) PROVE SentInv'
  <2>1. UNCHANGED <<worker, sent>>
    BY <1>4 DEF TaskStep, TickNoop, TickNoLink, TickStart, Leave
  <2>2. UNCHANGED tick \/ tick' = [tick EXCEPT ![o] = [by |-> "task", via |-> LinkFor(o)]]
    BY <1>4 DEF TaskStep, TickNoop, TickNoLink, TickStart
  <2>3. \A p \in OrderIds : tick'[p].by = "worker" => tick[p].by = "worker"
    BY <1>t, <2>2
  <2> QED BY <1>0, <2>1, <2>3, SentStays
<1>5. ASSUME NEW o \in OrderIds, TickEnd(o) PROVE SentInv'
  BY <1>0, <1>5, SentTickEnd
<1>6. ASSUME NEW g \in ApiGoods, NEW p \in Providers,
             NEW to \in {"on", "off", "absent"}, EditLink(g, p, to)
      PROVE  SentInv'
  BY <1>0, <1>6, SentStays DEF EditLink
<1>7. CASE Crash
  <2>1. UNCHANGED sent /\ worker' = Idle /\ tick' = [o \in OrderIds |-> NoTick]
    BY <1>7 DEF Crash
  <2>2. worker'.pc = "idle" /\ \A o \in OrderIds : tick'[o].by # "worker"
    BY <2>1 DEF Idle, NoTick
  <2> QED BY <1>0, <2>1, <2>2, SentQuiet
<1>8. CASE UNCHANGED vars
  BY <1>0, <1>8, SentStays DEF vars, dbVars
<1> QED BY <1>1, <1>2, <1>3, <1>4, <1>5, <1>6, <1>7, <1>8 DEF Next, OtherStep

\* A delivery is announced at most once, also when the process dies between
\* the send and the session that sets delivery_notified_at (SentOnce).
THEOREM AnnouncedOnce == Spec => []SentOnce
<1>1. Init => SentInv
  BY DEF Init, SentInv, Idle, NoTick
<1>2. SentInv => SentOnce
  BY DEF SentInv, SentOnce
<1> QED BY <1>1, <1>2, SentStep, Invariance, PTL DEF Spec
-----------------------------------------------------------------------------
(***************************************************************************)
(* Orders implements OrderBook                                             *)
(***************************************************************************)

LEMMA PercentBelow ==
    ASSUME NEW n \in Nat, NEW p \in 0..99
    PROVE  (n * p) \div 100 \in 0..n
<1> DEFINE m == n * p
<1>1. m \in Nat /\ m <= 100 * n
  <2>1. n * (100 - p) \in Nat
    OBVIOUS
  <2>2. n * (100 - p) = 100 * n - n * p
    OBVIOUS
  <2>3. n * p \in Nat
    OBVIOUS
  <2> QED BY <2>1, <2>2, <2>3
<1> HIDE DEF m
<1>2. m \div 100 \in 0..n
  BY <1>1
<1> QED BY <1>2 DEF m

\* The shop never rewards more than it was paid, nor the buyer.
LEMMA RewardBounded ==
    ASSUME NEW buy \in OrderRows
    PROVE  /\ Reward(buy) \in 0..buy.total
           /\ Reward(buy) > 0 => Referrer[buy.user] \in Users \ {buy.user}
<1>1. buy.total \in Nat
  BY DEF OrderRows
<1>2. (buy.total * ReferralPercent) \div 100 \in 0..buy.total
  BY <1>1, PercentBelow, UsersAssumption
<1> QED BY <1>1, <1>2 DEF Reward

LEMMA PayStep ==
    ASSUME IInv, NEW buy \in Purchases, BuyApi(buy)
    PROVE  Book!BookNext
<1>0. PICK n \in OrderIds : n = lastId + 1
  BY WorkerAssumption DEF BuyApi, CanBuy, IInv, TypeOK, OrderIds
<1>1. OrderSettled(n) /\ lastId \in Nat
  BY DEF IInv, TypeOK, Settled
<1>2. status[n] = "NONE"
  BY <1>0, <1>1 DEF OrderSettled
<1>3. /\ order' = [order EXCEPT ![n] = buy] /\ status' = [status EXCEPT ![n] = "PROCESSING"]
      /\ balance' = [u \in Users |-> balance[u] - ToBuyer(buy, buy.total, u)]
      /\ balance[buy.user] >= buy.total
      /\ UNCHANGED <<earned, bought>>
  BY <1>0 DEF BuyApi, NewOrder, CanBuy
<1>4. /\ order'[n] = buy /\ buy.user \in Users /\ buy.total \in Nat
      /\ balance \in [Users -> Nat]
  BY <1>3, GoodsAssumption DEF IInv, TypeOK, Purchases
<1>5. Book!Agree(n)
  <2>1. buy.total \in 0..balance[buy.user]
    BY <1>3, <1>4
  <2> QED BY <1>2, <1>3, <1>4, <2>1 DEF Book!Agree
<1>6. Book!Moves(buy, -buy.total, 0)
  <2>1. ASSUME NEW u \in Users
        PROVE  balance[u] - ToBuyer(buy, buy.total, u)
                 = balance[u] + (IF u = buy.user THEN -buy.total ELSE 0)
                              + (IF u = Referrer[buy.user] THEN 0 ELSE 0)
    BY <1>4 DEF ToBuyer
  <2> QED BY <1>3, <2>1 DEF Book!Moves
<1>7. Book!Moves(order'[n], -(order'[n].total), 0)
  BY <1>4, <1>6
<1>8. Book!Pay(n)
  BY <1>3, <1>5, <1>7 DEF Book!Pay
<1> QED BY <1>8 DEF Book!BookNext

LEMMA SellStep ==
    ASSUME IInv, NEW buy \in Purchases, BuyStock(buy)
    PROVE  Book!BookNext
<1>0. PICK n \in OrderIds : n = lastId + 1
  BY WorkerAssumption DEF BuyStock, CanBuy, IInv, TypeOK, OrderIds
<1>1. OrderSettled(n) /\ lastId \in Nat
  BY DEF IInv, TypeOK, Settled
<1>2. status[n] = "NONE"
  BY <1>0, <1>1 DEF OrderSettled
<1>3. PICK r : r = Reward(buy)
  OBVIOUS
<1>4. /\ order' = [order EXCEPT ![n] = buy] /\ status' = [status EXCEPT ![n] = "COMPLETED"]
      /\ bought' = [bought EXCEPT ![n] = Recipient(buy)]
      /\ earned' = [earned EXCEPT ![n] = r]
      /\ balance' = [u \in Users |-> balance[u] - ToBuyer(buy, buy.total, u)
                                                + ToReferrer(buy, r, u)]
      /\ balance[buy.user] >= buy.total
  BY <1>0, <1>3 DEF BuyStock, NewOrder, CanBuy
<1>5. /\ order'[n] = buy /\ earned'[n] = r
      /\ buy.user \in Users /\ buy.total \in Nat /\ balance \in [Users -> Nat]
  BY <1>4, GoodsAssumption DEF IInv, TypeOK, Purchases
<1>6. r \in 0..buy.total /\ (r > 0 => Referrer[buy.user] \in Users \ {buy.user})
  <2>1. buy \in OrderRows
    BY GoodsAssumption DEF Purchases, OrderRows
  <2> QED BY <1>3, <2>1, RewardBounded
<1>7. Book!Agree(n)
  <2>1. buy.total \in 0..balance[buy.user]
    BY <1>4, <1>5
  <2> QED BY <1>2, <1>4, <1>5, <2>1 DEF Book!Agree
<1>8. Book!Give(n, buy)
  BY <1>4, <1>5, <1>6 DEF Book!Give, Recipient
<1>9. Book!Moves(buy, -buy.total, r)
  <2>1. ASSUME NEW u \in Users
        PROVE  balance[u] - ToBuyer(buy, buy.total, u) + ToReferrer(buy, r, u)
                 = balance[u] + (IF u = buy.user THEN -buy.total ELSE 0)
                              + (IF u = Referrer[buy.user] THEN r ELSE 0)
    BY <1>5, <1>6 DEF ToBuyer, ToReferrer
  <2> QED BY <1>4, <2>1 DEF Book!Moves
<1>10. Book!Give(n, order'[n]) /\ Book!Moves(order'[n], -(order'[n].total), earned'[n])
  BY <1>5, <1>8, <1>9
<1>11. Book!Sell(n)
  BY <1>7, <1>10 DEF Book!Sell
<1> QED BY <1>11 DEF Book!BookNext

LEMMA DeliverStep ==
    ASSUME IInv, NEW o \in OrderIds, status[o] = "PROCESSING", Complete(o), order' = order
    PROVE  Book!BookNext
<1>1. PICK r : r = Reward(order[o])
  OBVIOUS
<1>2. /\ status' = [status EXCEPT ![o] = "COMPLETED"]
      /\ bought' = [bought EXCEPT ![o] = Recipient(order[o])]
      /\ earned' = [earned EXCEPT ![o] = r]
      /\ balance' = [u \in Users |-> balance[u] + ToReferrer(order[o], r, u)]
  BY <1>1 DEF Complete
<1>3. /\ order[o] \in OrderRows /\ earned'[o] = r /\ balance \in [Users -> Nat]
  BY <1>2 DEF IInv, TypeOK
<1>4. r \in 0..order[o].total /\ (r > 0 => Referrer[order[o].user] \in Users \ {order[o].user})
  BY <1>1, <1>3, RewardBounded
<1>5. Book!Give(o, order[o])
  BY <1>2, <1>3, <1>4 DEF Book!Give, Recipient
<1>6. Book!Moves(order[o], 0, r)
  <2>1. r \in Nat
    BY <1>3, <1>4 DEF OrderRows
  <2>2. ASSUME NEW u \in Users
        PROVE  balance[u] + ToReferrer(order[o], r, u)
                 = balance[u] + (IF u = order[o].user THEN 0 ELSE 0)
                              + (IF u = Referrer[order[o].user] THEN r ELSE 0)
    BY <1>3, <2>1 DEF ToReferrer
  <2> QED BY <1>2, <2>2 DEF Book!Moves
<1>7. Book!Moves(order[o], 0, earned'[o])
  BY <1>3, <1>6
<1>8. Book!Deliver(o)
  BY <1>5, <1>7 DEF Book!Deliver
<1> QED BY <1>8 DEF Book!BookNext

LEMMA UndoStep ==
    ASSUME IInv, NEW o \in OrderIds, status[o] \in Held, Refund(o), UNCHANGED <<order, bought>>
    PROVE  Book!BookNext
<1>1. status[o] \in {"PROCESSING", "COMPLETED"}
  BY DEF IInv, Settled, OrderSettled, Held
<1>2. /\ status' = [status EXCEPT ![o] = "REFUNDED"]
      /\ earned' = [earned EXCEPT ![o] = 0]
      /\ earned[o] > 0 => balance[Referrer[order[o].user]] >= earned[o]
      /\ balance' = [u \in Users |-> balance[u] + ToBuyer(order[o], order[o].total, u)
                                                - ToReferrer(order[o], earned[o], u)]
  BY DEF Refund
<1>3. /\ order[o].total \in Nat /\ balance \in [Users -> Nat] /\ earned[o] \in Nat
  BY DEF IInv, TypeOK, OrderRows
<1>4. Book!Moves(order[o], order[o].total, -earned[o])
  <2>1. ASSUME NEW u \in Users
        PROVE  balance[u] + ToBuyer(order[o], order[o].total, u) - ToReferrer(order[o], earned[o], u)
                 = balance[u] + (IF u = order[o].user THEN order[o].total ELSE 0)
                              + (IF u = Referrer[order[o].user] THEN -earned[o] ELSE 0)
    BY <1>3 DEF ToBuyer, ToReferrer
  <2> QED BY <1>2, <2>1 DEF Book!Moves
<1>5. Book!Undo(o)
  BY <1>1, <1>2, <1>4 DEF Book!Undo
<1> QED BY <1>5 DEF Book!BookNext

\* Every step is one of the book's, or leaves the book alone.
LEMMA BookStep ==
    ASSUME IInv, [Next]_vars
    PROVE  Book!BookNext \/ UNCHANGED Book!bookVars
<1>1. ASSUME UNCHANGED <<order, status, earned, bought, balance>>
      PROVE  UNCHANGED Book!bookVars
  BY <1>1 DEF Book!bookVars
<1>2. ASSUME NEW o \in OrderIds, FailAndRefund(o), UNCHANGED <<order, bought>>
      PROVE  Book!BookNext
  BY <1>2, FailedWasProcessing, UndoStep
<1>3. ASSUME NEW o \in OrderIds, NEW by, TickNoLink(o, by) PROVE Book!BookNext
  BY <1>2, <1>3 DEF TickNoLink
<1>4. ASSUME NEW o \in OrderIds, NEW by, TickNoop(o, by) \/ TickStart(o, by)
      PROVE  UNCHANGED Book!bookVars
  BY <1>1, <1>4 DEF TickNoop, TickStart, dbVars
<1>5. ASSUME NEW buy \in Purchases, BuyApi(buy) \/ BuyStock(buy) PROVE Book!BookNext
  BY <1>5, PayStep, SellStep
<1>6. ASSUME NEW o \in OrderIds, ManualRefund(o) PROVE Book!BookNext
  BY <1>6, UndoStep DEF ManualRefund, Held
<1>7. ASSUME NEW o \in OrderIds, TickEnd(o)
      PROVE  Book!BookNext \/ UNCHANGED Book!bookVars
  <2>1. CASE TickDelivered(o)
    <3>1. tick[o].by # "none" /\ Complete(o) /\ order' = order
      BY <2>1 DEF TickDelivered
    <3>2. status[o] = "PROCESSING"
      BY <3>1 DEF IInv, Settled, OrderSettled
    <3> QED BY <3>1, <3>2, DeliverStep
  <2>2. CASE TickPending(o)
    BY <1>1, <2>2 DEF TickPending
  <2>3. ASSUME NEW placed \in BOOLEAN, TickRetryable(o, placed)
        PROVE  Book!BookNext \/ UNCHANGED Book!bookVars
    <3>1. CASE attempts[o] + 1 >= MaxRetries
      BY <1>2, <2>3, <3>1 DEF TickRetryable
    <3>2. CASE ~(attempts[o] + 1 >= MaxRetries)
      BY <1>1, <2>3, <3>2 DEF TickRetryable
    <3> QED BY <3>1, <3>2
  <2>4. ASSUME NEW placed \in BOOLEAN, TickFatal(o, placed) PROVE Book!BookNext
    BY <1>2, <2>4 DEF TickFatal
  <2>5. ASSUME NEW placed \in BOOLEAN, TickError(o, placed) PROVE UNCHANGED Book!bookVars
    BY <1>1, <2>5 DEF TickError, dbVars
  <2> QED BY <1>7, <2>1, <2>2, <2>3, <2>4, <2>5 DEF TickEnd
<1>8. CASE WorkerStep
  <2>1. ASSUME NEW o \in OrderIds, FailHung(o) PROVE Book!BookNext
    BY <1>2, <2>1 DEF FailHung
  <2>2. ASSUME NEW o \in OrderIds,
               NotifyRead(o) \/ NotifySend(o) \/ NotifyFail(o) \/ NotifyMark(o)
        PROVE  UNCHANGED Book!bookVars
    BY <1>1, <2>2 DEF NotifyRead, NotifySend, NotifyFail, NotifyMark, dbVars
  <2>3. ASSUME SelectHung \/ ClaimProcessing PROVE UNCHANGED Book!bookVars
    BY <1>1, <2>3 DEF SelectHung, ClaimProcessing, dbVars
  <2> QED BY <1>3, <1>4, <1>8, <2>1, <2>2, <2>3 DEF WorkerStep
<1>9. CASE OtherStep
  <2>1. ASSUME NEW o \in OrderIds, Age(o) PROVE UNCHANGED Book!bookVars
    BY <1>1, <2>1 DEF Age
  <2>2. ASSUME NEW g \in ApiGoods, NEW p \in Providers,
               NEW to \in {"on", "off", "absent"}, EditLink(g, p, to)
        PROVE  UNCHANGED Book!bookVars
    BY <1>1, <2>2 DEF EditLink
  <2>3. CASE Crash
    BY <1>1, <2>3 DEF Crash, dbVars
  <2> QED BY <1>3, <1>4, <1>5, <1>6, <1>7, <1>9, <2>1, <2>2, <2>3 DEF OtherStep, TaskStep
<1>10. CASE UNCHANGED vars
  BY <1>1, <1>10 DEF vars, dbVars
<1> QED BY <1>8, <1>9, <1>10 DEF Next

\* Orders implements OrderBook (KeepsTheBook): the task of a purchase, the
\* worker, the hung sweep, the operator and crashes together do nothing to an
\* order but pay, deliver or undo it, each at most once and by the terms it was
\* made on.
THEOREM OrdersKeepTheBook == Spec => KeepsTheBook
<1>1. Init => Book!BookInit
  BY UsersAssumption DEF Init, Book!BookInit
<1>2. IInv /\ [Next]_vars => [Book!BookNext]_(Book!bookVars)
  BY BookStep
<1> QED BY <1>1, <1>2, Invariance, PTL DEF Spec, KeepsTheBook, Book!BookSpec
=============================================================================
