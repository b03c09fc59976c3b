------------------------------- MODULE Orders -------------------------------
(***************************************************************************)
(* The life of a paid order: purchase from the internal balance            *)
(* (buy_item_transaction), fulfilment ticks against an external goods      *)
(* provider (fulfill_processing_order, called by the task a purchase       *)
(* spawns and by FulfillmentWorker), automatic and manual refunds, the     *)
(* referral reward and the delivery message.                               *)
(*                                                                         *)
(* Every database session of the code commits once, when it ends, and      *)
(* holds the rows it selected FOR UPDATE until then.  A session that makes *)
(* no outside call is one action.  A fulfilment tick keeps its order row   *)
(* locked over the HTTP call, so it is two actions: TickStart and TickEnd. *)
(* The worker runs one step at a time; its position is `worker'.           *)
(***************************************************************************)
EXTENDS Integers, FiniteSets, Functions

CONSTANTS
    Users,            \* User rows
    NoUser,           \* NULL in referral_id and gift_telegram_id
    Referrer,         \* User.referral_id of each user
    ReferralPercent,  \* REFERRAL_PERCENT after the clamp to 0..99
    Funds,            \* the balance every user starts with
    Totals,           \* total_cents a checkout may come to (price, sale, promo)
    StockGoods,       \* goods sold from ItemValues rows
    InfiniteGoods,    \* the ones of them with an is_infinity template row
    ApiGoods,         \* goods with fulfillment_type API
    GiftGoods,        \* goods with allows_gift
    Units,            \* ItemValues rows every finite stock good starts with
    Providers,        \* FulfillmentProvider rows, numbered by link priority
    NoProvider,       \* NULL in provider_id
    MaxOrders,        \* bound: orders a behaviour may create
    MaxRetries,       \* _max_fulfillment_retries of every link
    BatchSize,        \* FULFILLMENT_BATCH_SIZE
    MaxExt,           \* bound: external orders are counted up to this many
    MaxCrashes        \* bound: how often the process may die

Goods == StockGoods \cup ApiGoods
OrderIds == 1..MaxOrders

\* _ALLOWED: the statuses an order may take and where each may go.
\* "NONE" stands for an id no row has yet.
Allowed ==
    [NONE       |-> {"CREATED"},
     CREATED    |-> {"PROCESSING", "EXPIRED"},
     PROCESSING |-> {"COMPLETED", "FAILED", "EXPIRED"},
     COMPLETED  |-> {"REFUNDED"},
     FAILED     |-> {"REFUNDED"},
     EXPIRED    |-> {},
     REFUNDED   |-> {}]
Statuses == DOMAIN Allowed

\* A provider takes an order and its answer comes back to a session that
\* commits, or is lost with a timeout, an error or a crash.
Outcomes == {"answered", "lost"}

ASSUME UsersAssumption ==
    /\ NoUser \notin Users
    /\ Referrer \in [Users -> Users \cup {NoUser}]
    /\ ReferralPercent \in 0..99
    /\ Funds \in [Users -> Nat]
ASSUME GoodsAssumption ==
    /\ Totals \subseteq Nat
    /\ InfiniteGoods \subseteq StockGoods
    /\ GiftGoods \subseteq Goods
    /\ StockGoods \cap ApiGoods = {}
    /\ Units \in Nat
ASSUME WorkerAssumption ==
    /\ Providers \subseteq Nat
    /\ NoProvider \notin Providers
    /\ MaxOrders \in Nat \ {0}
    /\ MaxRetries \in Nat \ {0}
    /\ BatchSize \in Nat \ {0}
    /\ MaxExt \in Nat \ {0}
    /\ MaxCrashes \in Nat

VARIABLES
    balance,    \* User.balance
    stock,      \* AVAILABLE finite ItemValues rows of each stock good
    links,      \* GoodsProviderLink per goods and provider: on, off or absent
    lastId,     \* the last Order.id the database gave out
    order,      \* Order: user, goods, total and gift, frozen at checkout
    status,     \* Order.status
    prov,       \* Order.provider_id
    extId,      \* Order.provider_external_order_id is set
    attempts,   \* Order.fulfillment_attempt_count
    old,        \* processing_started_at is before the hung cutoff
    earned,     \* ReferralEarnings.amount of the order; 0 without a row
    bought,     \* recipient of the order's BoughtGoods row; NoUser without one
    notified,   \* Order.delivery_notified_at is set
    tick,       \* the open fulfilment session on the order and its link
    tasks,      \* orders whose purchase-time fulfilment task has not started
    worker,     \* FulfillmentWorker: position and the order ids left to do
    ext,        \* orders providers accepted for this order, by outcome
    sent,       \* delivery messages Telegram accepted for this order
    crashes     \* how often the process has died

dbVars == <<balance, stock, links, lastId, order, status, prov, extId,
            attempts, old, earned, bought, notified>>
vars == <<dbVars, tick, tasks, worker, ext, sent, crashes>>

-----------------------------------------------------------------------------
(***************************************************************************)
(* Helpers                                                                 *)
(***************************************************************************)

\* _resolve_delivery_type: a gift is GIFT whatever its goods are.
DeliveryType(o) ==
    IF order[o].gift # NoUser THEN "GIFT"
    ELSE IF order[o].goods \in ApiGoods THEN "API" ELSE "STOCK"

\* _delivery_recipient_telegram_id
Recipient(buy) == IF buy.gift # NoUser THEN buy.gift ELSE buy.user

\* select_primary_link_for_session: the enabled link of the best priority.
PrimaryLink(g) ==
    LET on == {p \in Providers : links[g][p] = "on"}
    IN  IF on = {} THEN NoProvider
        ELSE CHOOSE p \in on : \A q \in on : p <= q

\* The tick's link: that of the order's provider whether enabled or not,
\* else the primary one.
LinkFor(o) ==
    LET row == links[order[o].goods]
    IN  IF prov[o] \in Providers /\ row[prov[o]] # "absent" THEN prov[o]
        ELSE PrimaryLink(order[o].goods)

\* credit_referral_for_order: the reward of the buyer's referrer.
Reward(buy) ==
    IF Referrer[buy.user] \in Users \ {buy.user}
    THEN (buy.total * ReferralPercent) \div 100
    ELSE 0

\* What user u gets of an amount meant for the buyer, or for the referrer.
ToBuyer(buy, amount, u) == IF u = buy.user THEN amount ELSE 0
ToReferrer(buy, amount, u) == IF u = Referrer[buy.user] THEN amount ELSE 0

NoTick == [by |-> "none", via |-> NoProvider]

\* Mutant: the HTTP call is made outside the session that locks the row.
LockedByNobody(o) == FALSE

\* A fulfilment session holds the row FOR UPDATE.
Locked(o) == tick[o].by # "none"

\* The session of _fail_hung_processing has not committed.
BatchOpen == worker.pc = "hung" /\ worker.ids # {}

Idle == [pc |-> "idle", ids |-> {}]

-----------------------------------------------------------------------------
Init ==
    /\ balance = Funds
    /\ stock = [g \in StockGoods |-> Units]
    /\ links = [g \in ApiGoods |-> [p \in Providers |-> "on"]]
    /\ lastId = 0
    /\ order = [o \in OrderIds |-> [user |-> NoUser, goods |-> NoUser,
                                    total |-> 0, gift |-> NoUser]]
    /\ status = [o \in OrderIds |-> "NONE"]
    /\ prov = [o \in OrderIds |-> NoProvider]
    /\ extId = [o \in OrderIds |-> FALSE]
    /\ attempts = [o \in OrderIds |-> 0]
    /\ old = [o \in OrderIds |-> FALSE]
    /\ earned = [o \in OrderIds |-> 0]
    /\ bought = [o \in OrderIds |-> NoUser]
    /\ notified = [o \in OrderIds |-> FALSE]
    /\ tick = [o \in OrderIds |-> NoTick]
    /\ tasks = {}
    /\ worker = Idle
    /\ ext = [o \in OrderIds |-> [k \in Outcomes |-> 0]]
    /\ sent = [o \in OrderIds |-> 0]
    /\ crashes = 0

-----------------------------------------------------------------------------
(***************************************************************************)
(* Settlement: transition_order with what it triggers                      *)
(***************************************************************************)

\* Mutant: the reward is paid without a ReferralEarnings row.
CompleteUnrecorded(o) ==
    /\ status' = [status EXCEPT ![o] = "COMPLETED"]
    /\ bought' = [bought EXCEPT ![o] = Recipient(order[o])]
    /\ balance' = [u \in Users |-> balance[u]
                     + ToReferrer(order[o], Reward(order[o]), u)]
    /\ UNCHANGED earned

\* PROCESSING -> COMPLETED: the BoughtGoods row and the referral reward.
Complete(o) ==
    LET buy == order[o]
    IN  /\ "COMPLETED" \in Allowed[status[o]]
        /\ status' = [status EXCEPT ![o] = "COMPLETED"]
        /\ bought' = [bought EXCEPT ![o] = Recipient(buy)]
        /\ earned' = [earned EXCEPT ![o] = Reward(buy)]
        /\ balance' = [u \in Users |->
                         balance[u] + ToReferrer(buy, Reward(buy), u)]

\* -> REFUNDED: the total goes back to the buyer and the reward, if one was
\* paid, is taken from the referrer; CHECK (balance >= 0) rejects the whole
\* session when the referrer no longer has it.
Refund(o) ==
    LET buy == order[o]
    IN  /\ earned[o] > 0 => balance[Referrer[buy.user]] >= earned[o]
        /\ status' = [status EXCEPT ![o] = "REFUNDED"]
        /\ earned' = [earned EXCEPT ![o] = 0]
        /\ balance' = [u \in Users |-> balance[u]
                         + ToBuyer(buy, buy.total, u)
                         - ToReferrer(buy, earned[o], u)]

\* PROCESSING -> FAILED -> REFUNDED in one session (refund_failed_order).
FailAndRefund(o) ==
    /\ "FAILED" \in Allowed[status[o]]
    /\ Refund(o)

-----------------------------------------------------------------------------
(***************************************************************************)
(* Checkout: buy_item_transaction                                          *)
(***************************************************************************)

\* Mutant: the balance is not checked.
CanBuyOnCredit(buy) ==
    /\ lastId < MaxOrders
    /\ buy.gift # NoUser => buy.goods \in GiftGoods /\ buy.gift # buy.user

\* Checks before any write: the gift rules and the balance.
CanBuy(buy) ==
    /\ lastId < MaxOrders
    /\ buy.gift # NoUser => buy.goods \in GiftGoods /\ buy.gift # buy.user
    /\ balance[buy.user] >= buy.total

\* create_order_with_snapshot
NewOrder(buy) ==
    /\ lastId' = lastId + 1
    /\ order' = [order EXCEPT ![lastId + 1] = buy]

\* API goods: the order is paid and PROCESSING, its task is scheduled.
BuyApi(buy) ==
    /\ buy.goods \in ApiGoods
    /\ PrimaryLink(buy.goods) # NoProvider
    /\ CanBuy(buy)
    /\ NewOrder(buy)
    /\ status' = [status EXCEPT ![lastId + 1] = "PROCESSING"]
    /\ prov' = [prov EXCEPT ![lastId + 1] = PrimaryLink(buy.goods)]
    /\ balance' = [u \in Users |-> balance[u] - ToBuyer(buy, buy.total, u)]
    /\ tasks' = tasks \cup {lastId + 1}
    /\ UNCHANGED <<stock, links, extId, attempts, old, earned, bought,
                   notified, tick, worker, ext, sent, crashes>>

\* STOCK goods: a unit is consumed and the order completes in the session.
BuyStock(buy) ==
    /\ buy.goods \in StockGoods
    /\ buy.goods \in InfiniteGoods \/ stock[buy.goods] > 0
    /\ CanBuy(buy)
    /\ NewOrder(buy)
    /\ stock' = IF buy.goods \in InfiniteGoods THEN stock
                ELSE [stock EXCEPT ![buy.goods] = @ - 1]
    /\ status' = [status EXCEPT ![lastId + 1] = "COMPLETED"]
    /\ bought' = [bought EXCEPT ![lastId + 1] = Recipient(buy)]
    /\ earned' = [earned EXCEPT ![lastId + 1] = Reward(buy)]
    /\ balance' = [u \in Users |-> balance[u]
                     - ToBuyer(buy, buy.total, u)
                     + ToReferrer(buy, Reward(buy), u)]
    /\ UNCHANGED <<links, prov, extId, attempts, old, notified,
                   tick, tasks, worker, ext, sent, crashes>>

\* Mutant: a refund that was made already is made again.
RefundAgain(o) ==
    /\ status[o] \in {"COMPLETED", "FAILED", "REFUNDED"}
    /\ Refund(o)
    /\ UNCHANGED <<stock, links, lastId, order, prov, extId, attempts, old,
                   bought, notified, tick, tasks, worker, ext, sent, crashes>>

\* run_manual_refund of the admin panel.
ManualRefund(o) ==
    /\ status[o] \in {"COMPLETED", "FAILED"}
    /\ ~Locked(o)
    /\ Refund(o)
    /\ UNCHANGED <<stock, links, lastId, order, prov, extId, attempts, old,
                   bought, notified, tick, tasks, worker, ext, sent, crashes>>

-----------------------------------------------------------------------------
(***************************************************************************)
(* Fulfilment ticks: fulfill_processing_order.  `by' is "task" for the     *)
(* task a purchase spawned, "worker" for the worker's loop.                *)
(***************************************************************************)

\* The tick returns: the worker goes on to its next id.
Leave(o, by) ==
    IF by = "worker"
    THEN worker' = LET rest == worker.ids \ {o}
                   IN  IF rest = {} THEN Idle
                       ELSE [pc |-> "run", ids |-> rest]
    ELSE UNCHANGED worker

\* The worker runs its claimed ids in order; a task runs its order once.
MayTick(o, by) ==
    \/ by = "task" /\ o \in tasks
    \/ /\ by = "worker" /\ worker.pc = "run"
       /\ o \in worker.ids /\ \A p \in worker.ids : o <= p

\* The row was locked and read; the order is no longer PROCESSING.  (The
\* code also completes a PROCESSING order that has a BoughtGoods row: Settled
\* shows that no such order exists.)
TickNoop(o, by) ==
    /\ MayTick(o, by) /\ ~Locked(o)
    /\ status[o] # "PROCESSING"
    /\ Leave(o, by)
    /\ tasks' = IF by = "task" THEN tasks \ {o} ELSE tasks
    /\ UNCHANGED <<dbVars, tick, ext, sent, crashes>>

\* No link is left to order through.
TickNoLink(o, by) ==
    /\ MayTick(o, by) /\ ~Locked(o)
    /\ status[o] = "PROCESSING"
    /\ LinkFor(o) = NoProvider
    /\ FailAndRefund(o)
    /\ Leave(o, by)
    /\ tasks' = IF by = "task" THEN tasks \ {o} ELSE tasks
    /\ UNCHANGED <<stock, links, lastId, order, prov, extId, attempts, old,
                   bought, notified, tick, ext, sent, crashes>>

\* The row stays locked and the provider is called.
TickStart(o, by) ==
    /\ MayTick(o, by) /\ ~Locked(o)
    /\ status[o] = "PROCESSING"
    /\ LinkFor(o) # NoProvider
    /\ tick' = [tick EXCEPT ![o] = [by |-> by, via |-> LinkFor(o)]]
    /\ tasks' = IF by = "task" THEN tasks \ {o} ELSE tasks
    /\ UNCHANGED <<dbVars, worker, ext, sent, crashes>>

\* create_external_order polls once an external id is stored.
Creating(o) == ~extId[o]

\* The provider took (placed) or did not take an order.
Place(o, placed, outcome) ==
    ext' = [ext EXCEPT ![o][outcome] = IF placed /\ @ < MaxExt THEN @ + 1 ELSE @]

\* Only the provider that issued the external id knows it.
Answers(o) == Creating(o) \/ tick[o].via = prov[o]

\* Mutant: the id of an order that is pending at the provider is not kept.
DropExternalId(o) == UNCHANGED <<extId, prov>>

\* The external id and provider a successful call leaves on the order.
KeepExternalId(o) ==
    /\ extId' = [extId EXCEPT ![o] = TRUE]
    /\ prov' = [prov EXCEPT ![o] = tick[o].via]

Unlock(o) == tick' = [tick EXCEPT ![o] = NoTick]

\* The provider returned the goods; the worker then notifies, a task does not.
TickDelivered(o) ==
    /\ tick[o].by # "none" /\ Answers(o)
    /\ Place(o, Creating(o), "answered")
    /\ KeepExternalId(o)
    /\ Complete(o)
    /\ Unlock(o)
    /\ worker' = IF tick[o].by = "worker"
                 THEN [worker EXCEPT !.pc = "notify"] ELSE worker
    /\ UNCHANGED <<stock, links, lastId, order, attempts, old, notified,
                   tasks, sent, crashes>>

\* The provider has the order but no goods yet.
TickPending(o) ==
    /\ tick[o].by # "none" /\ Answers(o)
    /\ Place(o, Creating(o), "answered")
    /\ KeepExternalId(o)
    /\ Leave(o, tick[o].by)
    /\ Unlock(o)
    /\ UNCHANGED <<balance, stock, links, lastId, order, status, attempts,
                   old, earned, bought, notified, tasks, sent, crashes>>

\* ProviderRetryableError: a timeout may hide an order the provider took.
TickRetryable(o, placed) ==
    /\ tick[o].by # "none"
    /\ placed => Creating(o)
    /\ Place(o, placed, "lost")
    /\ attempts' = [attempts EXCEPT ![o] = @ + 1]
    /\ IF attempts[o] + 1 >= MaxRetries
       THEN FailAndRefund(o)
       ELSE UNCHANGED <<balance, status, earned>>
    /\ Leave(o, tick[o].by)
    /\ Unlock(o)
    /\ UNCHANGED <<stock, links, lastId, order, prov, extId, old, bought,
                   notified, tasks, sent, crashes>>

\* ProviderFatalError
TickFatal(o, placed) ==
    /\ tick[o].by # "none"
    /\ placed => Creating(o)
    /\ Place(o, placed, "lost")
    /\ FailAndRefund(o)
    /\ Leave(o, tick[o].by)
    /\ Unlock(o)
    /\ UNCHANGED <<stock, links, lastId, order, prov, extId, attempts, old,
                   bought, notified, tasks, sent, crashes>>

\* Any other exception rolls the session back and ends the worker's _tick.
TickError(o, placed) ==
    /\ tick[o].by # "none"
    /\ placed => Creating(o)
    /\ Place(o, placed, "lost")
    /\ worker' = IF tick[o].by = "worker" THEN Idle ELSE worker
    /\ Unlock(o)
    /\ UNCHANGED <<dbVars, tasks, sent, crashes>>

TickEnd(o) ==
    \/ TickDelivered(o)
    \/ TickPending(o)
    \/ \E placed \in BOOLEAN :
         TickRetryable(o, placed) \/ TickFatal(o, placed) \/ TickError(o, placed)

-----------------------------------------------------------------------------
(***************************************************************************)
(* FulfillmentWorker._tick and notify_order_delivery                       *)
(***************************************************************************)

Smaller(m, n) == IF m < n THEN m ELSE n

\* What the worker polls: its queries name delivery_type API.
Polled(o) == status[o] = "PROCESSING" /\ DeliveryType(o) = "API"

\* Mutant: orders the provider has accepted are never given up.
SelectHungUnplaced ==
    /\ worker.pc = "idle"
    /\ LET hung == {o \in OrderIds :
                      Polled(o) /\ old[o] /\ ~Locked(o) /\ ~extId[o]}
       IN  \E S \in SUBSET hung :
             /\ Cardinality(S) = Smaller(BatchSize, Cardinality(hung))
             /\ worker' = [pc |-> "hung", ids |-> S]
    /\ UNCHANGED <<dbVars, tick, tasks, ext, sent, crashes>>

\* _fail_hung_processing selects hung orders FOR UPDATE SKIP LOCKED, in no
\* particular order.
SelectHung ==
    /\ worker.pc = "idle"
    /\ LET hung == {o \in OrderIds : Polled(o) /\ old[o] /\ ~Locked(o)}
       IN  \E S \in SUBSET hung :
             /\ Cardinality(S) = Smaller(BatchSize, Cardinality(hung))
             /\ worker' = [pc |-> "hung", ids |-> S]
    /\ UNCHANGED <<dbVars, tick, tasks, ext, sent, crashes>>

\* Its loop body, for one selected order.  The loop runs in the session that
\* selected the orders, so nothing else happens until it ends (see Next).
FailHung(o) ==
    /\ worker.pc = "hung" /\ o \in worker.ids
    /\ FailAndRefund(o)
    /\ worker' = [worker EXCEPT !.ids = @ \ {o}]
    /\ UNCHANGED <<stock, links, lastId, order, prov, extId, attempts, old,
                   bought, notified, tick, tasks, ext, sent, crashes>>

\* list_processing_api_order_ids: the lowest ids, locked rows skipped; its
\* session ends before the ids are used.
ClaimProcessing ==
    /\ worker.pc = "hung" /\ worker.ids = {}
    /\ LET free == {o \in OrderIds : Polled(o) /\ ~Locked(o)}
           ids == {o \in free :
                     Cardinality({p \in free : p < o}) < BatchSize}
       IN  worker' = IF ids = {} THEN Idle ELSE [pc |-> "run", ids |-> ids]
    /\ UNCHANGED <<dbVars, tick, tasks, ext, sent, crashes>>

\* The order the worker has just completed.
Current(o) == o \in worker.ids /\ \A p \in worker.ids : o <= p

\* The first session of notify_order_delivery: an order that is no longer
\* COMPLETED or was notified before is left alone.
NotifyRead(o) ==
    /\ worker.pc = "notify" /\ Current(o)
    /\ IF status[o] = "COMPLETED" /\ ~notified[o] /\ bought[o] # NoUser
       THEN worker' = [worker EXCEPT !.pc = "send"]
       ELSE Leave(o, "worker")
    /\ UNCHANGED <<dbVars, tick, tasks, ext, sent, crashes>>

\* Mutant: a send that timed out is repeated.
NotifySendRepeat(o) ==
    /\ worker.pc = "send" /\ Current(o) /\ sent[o] < 2
    /\ sent' = [sent EXCEPT ![o] = @ + 1]
    /\ UNCHANGED <<dbVars, tick, tasks, worker, ext, crashes>>

\* The message reaches Telegram ...
NotifySend(o) ==
    /\ worker.pc = "send" /\ Current(o)
    /\ sent' = [sent EXCEPT ![o] = @ + 1]
    /\ worker' = [worker EXCEPT !.pc = "mark"]
    /\ UNCHANGED <<dbVars, tick, tasks, ext, crashes>>

\* ... or sending fails, which is logged and not retried.
NotifyFail(o) ==
    /\ worker.pc = "send" /\ Current(o)
    /\ Leave(o, "worker")
    /\ UNCHANGED <<dbVars, tick, tasks, ext, sent, crashes>>

\* The second session of notify_order_delivery.
NotifyMark(o) ==
    /\ worker.pc = "mark" /\ Current(o)
    /\ notified' = [notified EXCEPT ![o] = TRUE]
    /\ Leave(o, "worker")
    /\ UNCHANGED <<balance, stock, links, lastId, order, status, prov, extId,
                   attempts, old, earned, bought, tick, tasks, ext, sent,
                   crashes>>

-----------------------------------------------------------------------------
(***************************************************************************)
(* The surroundings                                                        *)
(***************************************************************************)

\* The panel edits a link or its provider's enabled flag, or deletes the link.
EditLink(g, p, to) ==
    /\ links[g][p] # to
    /\ links' = [links EXCEPT ![g][p] = to]
    /\ UNCHANGED <<balance, stock, lastId, order, status, prov, extId,
                   attempts, old, earned, bought, notified, tick, tasks,
                   worker, ext, sent, crashes>>

\* FULFILLMENT_HUNG_SECONDS pass.
Age(o) ==
    /\ status[o] = "PROCESSING" /\ ~old[o]
    /\ old' = [old EXCEPT ![o] = TRUE]
    /\ UNCHANGED <<balance, stock, links, lastId, order, status, prov, extId,
                   attempts, earned, bought, notified, tick, tasks, worker,
                   ext, sent, crashes>>

\* The process dies and restarts: open sessions roll back, tasks are gone,
\* and a call in flight may or may not have reached the provider.
Crash ==
    /\ crashes < MaxCrashes
    /\ crashes' = crashes + 1
    /\ \E reached \in SUBSET {o \in OrderIds : tick[o].by # "none" /\ Creating(o)} :
         ext' = [o \in OrderIds |->
                   IF o \in reached /\ ext[o]["lost"] < MaxExt
                   THEN [ext[o] EXCEPT !["lost"] = @ + 1] ELSE ext[o]]
    /\ tick' = [o \in OrderIds |-> NoTick]
    /\ tasks' = {}
    /\ worker' = Idle
    /\ UNCHANGED <<dbVars, sent>>

-----------------------------------------------------------------------------
Purchases == [user : Users, goods : Goods, total : Totals,
              gift : Users \cup {NoUser}]

TaskStep(o) ==
    TickNoop(o, "task") \/ TickNoLink(o, "task") \/ TickStart(o, "task")

WorkerStep ==
    \/ SelectHung
    \/ ClaimProcessing
    \/ \E o \in OrderIds :
         \/ FailHung(o)
         \/ TickNoop(o, "worker")
         \/ TickNoLink(o, "worker")
         \/ TickStart(o, "worker")
         \/ NotifyRead(o)
         \/ NotifySend(o)
         \/ NotifyFail(o)
         \/ NotifyMark(o)

\* What other sessions, tasks and the surroundings do.
OtherStep ==
    \/ \E buy \in Purchases : BuyApi(buy) \/ BuyStock(buy)
    \/ \E o \in OrderIds :
         ManualRefund(o) \/ TaskStep(o) \/ TickEnd(o) \/ Age(o)
    \/ \E g \in ApiGoods, p \in Providers, to \in {"on", "off", "absent"} :
         EditLink(g, p, to)
    \/ Crash

Next == WorkerStep \/ (~BatchOpen /\ OtherStep)

Spec == Init /\ [][Next]_vars

\* _run_periodically restarts the worker's tick for ever, HTTP calls time
\* out, the event loop runs every scheduled task, and time passes.
Fairness ==
    /\ WF_vars(WorkerStep)
    /\ \A o \in OrderIds :
         WF_vars(TickEnd(o)) /\ WF_vars(TaskStep(o)) /\ WF_vars(Age(o))

FairSpec == Spec /\ Fairness

-----------------------------------------------------------------------------
(***************************************************************************)
(* Properties                                                              *)
(***************************************************************************)

OrderRows == [user : Users \cup {NoUser}, goods : Goods \cup {NoUser},
              total : Nat, gift : Users \cup {NoUser}]
Positions == {"idle", "hung", "run", "notify", "send", "mark"}
Ticks == [by : {"none", "task", "worker"}, via : Providers \cup {NoProvider}]

\* Every variable stays in its type; in particular no balance goes negative,
\* which is what CHECK (balance >= 0) on users demands of every session.
TypeOK ==
    /\ balance \in [Users -> Nat]
    /\ stock \in [StockGoods -> Nat]
    /\ links \in [ApiGoods -> [Providers -> {"on", "off", "absent"}]]
    /\ lastId \in 0..MaxOrders
    /\ order \in [OrderIds -> OrderRows]
    /\ status \in [OrderIds -> Statuses]
    /\ prov \in [OrderIds -> Providers \cup {NoProvider}]
    /\ extId \in [OrderIds -> BOOLEAN]
    /\ attempts \in [OrderIds -> Nat]
    /\ old \in [OrderIds -> BOOLEAN]
    /\ earned \in [OrderIds -> Nat]
    /\ bought \in [OrderIds -> Users \cup {NoUser}]
    /\ notified \in [OrderIds -> BOOLEAN]
    /\ tick \in [OrderIds -> Ticks]
    /\ tasks \subseteq OrderIds
    /\ worker \in [pc : Positions, ids : SUBSET OrderIds]
    /\ ext \in [OrderIds -> [Outcomes -> 0..MaxExt]]
    /\ sent \in [OrderIds -> Nat]
    /\ crashes \in 0..MaxCrashes

\* What each status says of the order's other rows.  No committed order is
\* CREATED, FAILED or EXPIRED: no session leaves money held by a failed
\* order.  While a tick waits for the provider nobody settles its order, and
\* an external id is stored only if a provider took the order.  A PROCESSING order
\* has delivered nothing and rewarded nobody; a COMPLETED one has a
\* BoughtGoods row for its recipient and its referrer's reward; a REFUNDED
\* one has no reward left, and an order out of retries is REFUNDED.
OrderSettled(o) ==
    /\ status[o] \in {"NONE", "PROCESSING", "COMPLETED", "REFUNDED"}
    /\ status[o] = "NONE" <=> o > lastId
    /\ tick[o].by # "none" => status[o] = "PROCESSING"
    /\ extId[o] => ext[o]["answered"] > 0
    /\ status[o] \in {"NONE", "PROCESSING"} =>
         bought[o] = NoUser /\ earned[o] = 0
    /\ status[o] = "COMPLETED" =>
         bought[o] = Recipient(order[o]) /\ earned[o] = Reward(order[o])
    /\ status[o] = "REFUNDED" => earned[o] = 0
    /\ attempts[o] >= MaxRetries => status[o] = "REFUNDED"
Settled == \A o \in OrderIds : OrderSettled(o)

Held == {"PROCESSING", "COMPLETED", "FAILED"}

\* What order o has moved onto (or off) u's balance so far.
Moved(o, u) ==
    (IF status[o] \in Held THEN -ToBuyer(order[o], order[o].total, u) ELSE 0)
    + (IF earned[o] > 0 THEN ToReferrer(order[o], earned[o], u) ELSE 0)

\* The step moves the money of one order and touches no other.
MovesOneOrder ==
    \E o \in OrderIds :
      /\ \A u \in Users : balance'[u] - balance[u] = Moved(o, u)' - Moved(o, u)
      /\ \A p \in OrderIds \ {o} :
           /\ order'[p] = order[p]
           /\ status'[p] = status[p]
           /\ earned'[p] = earned[p]

\* Every step moves exactly the money of the one order it changes: the
\* purchase takes the total once, a refund by whichever path (hung, retries
\* exhausted, fatal, no link, operator) gives it back once, a reward is paid
\* once and taken back once, and no other order's money moves.
StepBalances == [][MovesOneOrder]_vars

\* The order rows, their deliveries and rewards, and the balances, as a book.
Book == INSTANCE OrderBook WITH
    Ids <- OrderIds, terms <- order, stage <- status, reward <- earned,
    holder <- bought

\* Orders implements OrderBook: whichever of task, worker, sweep and operator
\* acts, and wherever the process dies, a step pays, delivers or undoes one
\* order by its terms, or moves no money and no status.
KeepsTheBook == Book!BookSpec

\* The books balance: what a user has is what they started with, less the
\* totals of their orders that are paid and not refunded, plus the rewards
\* of their referrals' completed orders (balance updates of
\* buy_item_transaction, fulfilment and refund, taken together).
BooksBalance ==
    \A u \in Users :
      balance[u] = Funds[u] + SumFunctionOnSet([o \in OrderIds |-> Moved(o, u)], OrderIds)

\* "create_external_order: call provider create_order once; reuse external id
\* on retry": once a provider has answered that it took an order, nothing more
\* is placed for it, however the purchase-time task, the worker, link edits,
\* retries and crashes interleave.  What may be placed twice is an order whose
\* answer was lost before.
PlacedNoMore ==
    [][\A o \in OrderIds : ext[o]["answered"] > 0 => ext'[o] = ext[o]]_vars

\* An order is placed with a provider at most once, lost answers included.
OneExternalOrder == \A o \in OrderIds : ext[o]["answered"] + ext[o]["lost"] <= 1

\* The delivery message of an order is sent at most once, even when the
\* process dies between sending it and setting delivery_notified_at.
SentOnce == \A o \in OrderIds : sent[o] <= 1

\* An order the worker polls does not stay PROCESSING: it is completed, or
\* refunded when retries run out or the hung cutoff passes.
ApiOrdersSettle ==
    \A o \in OrderIds : Polled(o) ~> status[o] # "PROCESSING"

\* The same of every PROCESSING order, gifts of API goods included.
AllOrdersSettle ==
    \A o \in OrderIds : status[o] = "PROCESSING" ~> status[o] # "PROCESSING"

\* The buyer of a completed API order is told, unless it is refunded first.
BuyerIsNotified ==
    \A o \in OrderIds :
      (status[o] = "COMPLETED" /\ DeliveryType(o) = "API")
        ~> (sent[o] > 0 \/ status[o] = "REFUNDED")

\* An operator can refund any completed order.
RefundPossible ==
    \A o \in OrderIds :
      status[o] = "COMPLETED" /\ earned[o] > 0 =>
        balance[Referrer[order[o].user]] >= earned[o]

=============================================================================
