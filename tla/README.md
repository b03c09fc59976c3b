# Formal models of telegram-shop

TLA+ models of the shop bot: how a balance is topped up, how a cart or a single
good is bought with it, how a paid order reaches its buyer or is refunded; the
services behind the handlers (cache, rate limits, mailings, restock notices,
audit, row locks); and the conversations of customers and staff.  TLC checks each
model on small instances; the TLA+ proof system (TLAPS) proves the main safety
properties for every value of the parameters.  Paths below are relative to the
repository.

## 1. The system

One Python process (aiogram bot, Starlette web panel and webhooks, background
loops) over one PostgreSQL database and Redis.  Several handlers run
concurrently on the event loop, and one process may be replaced by another at
any time; what survives is the database, Redis, and what the gateways,
providers and Telegram know.

Concurrency follows one convention everywhere.  `async with
Database().session()` is one transaction: it commits when the block ends and
rolls back on an exception.  Rows read `with_for_update()` stay locked until
then.  Between two sessions, or at an await on an outside service, anything else
may happen.

| Component | State it keeps | Operations | Talks to |
| --- | --- | --- | --- |
| Single-item checkout (`database/methods/transactions.py`) | users.balance, orders, bought goods, stock | `buy_item_transaction` | promo, stock, pricing, fulfilment task |
| Orders (`database/methods/orders.py`) | order status and snapshots | `transition_order`, refunds, cancel, expiry | referral, stock |
| Fulfilment (`misc/services/fulfillment.py`, `fulfillment_worker.py`, `providers/`) | external id, attempt count, processing_started_at, delivery_notified_at | tick, hung sweep, notification | external goods providers, Telegram |
| Referral rewards (`misc/services/referral.py`) | referral earnings, referrer's balance | credit on completion, storno on refund | orders |
| Payments (`handlers/user/balance_and_payment.py`, `payments/`, `web/payment_webhooks.py`) | payments rows, conversation data | ask for invoice, check, webhook, successful_payment | CryptoPay, Platega, Telegram Stars |
| Recovery, cleanup (`misc/services/recovery.py`, `cleanup.py`) | payments rows, audit rows | sweep, deletion after retention | gateways |
| Cart (`database/methods/transactions.py`, `create.py`, `update.py`, `delete.py`, `handlers/user/cart.py`) | cart lines, expected total | add, change, remove, `checkout_cart_transaction` | promo, stock, pricing |
| Promo codes (`promo_usage.py`, `read.py`) | uses counters and usage rows | validate, record, redeem to balance | both checkouts |
| Stock (`catalog/stock.py`) | item values: AVAILABLE, RESERVED, SOLD | consume, reserve, release | checkout, expiry |
| Pricing and money (`pricing.py`, `money.py`) | none | discounts, sale prices, splitting an amount | checkouts |
| Caching (`misc/caching/`) | Redis keys, in-process single-flight locks | get or load, invalidate after commit | every read |
| Middleware (`middleware/`) | rate counters, blocked users, login attempts | admit or drop an update | every handler |
| Support (`database/methods/support.py`) | tickets and messages | open, answer, close | staff and users |
| Broadcast, restock, audit | counters, subscribers, buffer | send to all, notify subscribers, flush | Telegram, database |
| Roles (`handlers/admin/role_management.py`, `database/models/main.py`) | permission masks, users' roles, open role dialogs | create, edit, delete, assign, seed at startup | role cache, filters |
| Shop dialogs (`handlers/user/shop_and_goods.py`, `purchase_ui.py`) | FSM state and session data per customer | browse, search, promo, gift, review, confirm | checkout, lists |
| Catalogue dialogs (`handlers/admin/adding_position.py`, `update_position.py`, `goods_management.py`, `categories_management.py`) | FSM state and data per editor, goods, categories, stock | add, restock, update, rename, delete | purchases, cache |
| Lists (`misc/lazy_paginator.py`, `database/methods/lazy_queries.py`) | cached counts | draw a page | every list screen |
| Web panel, localisation, migrations | none of their own | screens | all of the above |

### What is hard here, and what correct means

* **Orders.**  Two actors (the task a purchase spawns, the worker) may handle an
  order, a third (the hung sweep) may give it up and a fourth (an operator) may
  refund it, while a provider is being waited for.  Correct: the buyer pays
  once, gets the goods or the money and never both by accident, the referrer's
  reward exists exactly for completed orders, a provider that took an order is not
  asked for it again, the buyer is told once, and no order is held for ever.
* **Payments.**  The same payment is reported by a button, a webhook, a sweep and
  an update that Telegram may repeat.  Correct: credited at most once, with
  what was paid, to who paid, and eventually.
* **Carts and promo codes.**  The total shown, the total charged and the lines
  read are from different moments.  Correct: nothing is charged that was not
  shown, nothing is sold twice, a limit on uses holds.
* **Stock.**  Correct: a unit is sold to one order.
* **Locks.**  Sessions lock users, goods, promo codes, orders and referrers in
  different orders.  Correct: no cycle of waiting, or one the code retries.
* **Caching.**  Redis fails, unnoticed at first, and comes back.  Correct: a
  committed write is not masked by an entry nobody is going to delete.
* **Middleware.**  Correct: limits hold at their edges and over both stores, a
  ban is earned, a permission taken away is soon gone, the block list is right.
* **Mailings, restocks, audit.**  Correct: one mailing per administrator and a
  true report, one notice per subscription, no audit row lost or doubled.
* **Conversations.**  A dialog remembers what it read long ago, messages and
  buttons stay on the screen for ever, and two people edit the same thing.
  Correct: nobody gains a permission, a button does what its screen says,
  history and stock stay coherent.

`PROJECT.json` lists each hazard with its line and the properties that watch it.

## 2. Modules

| Module | Models |
| --- | --- |
| `OrderBook` | abstract: an order is paid, delivered or undone once, by its terms |
| `Orders` | purchase, fulfilment, worker, refunds, rewards, delivery message; implements `OrderBook` |
| `MCOrders` | instances of `Orders` |
| `OrdersProofs` | TLAPS proofs about `Orders`, refinement included |
| `TopUps` | abstract: a payment taken is credited at most once |
| `Payments` | conversation, three gateways, sweep, cleanup; implements `TopUps` |
| `MCPayments` | instances of `Payments` |
| `PaymentsProofs` | TLAPS proofs about `Payments`, refinement included |
| `Carts` | cart lines, confirmation dialog, cart checkout, promo codes, and the purchases, redemptions and staff edits that compete with them |
| `CartsProofs` | TLAPS proofs about `Carts` |
| `MCCarts` | instances of `Carts`: the terms of the codes, the carts users start with |
| `Caching` | the Redis cache manager: single flight, invalidations, outages, deferred deletes and their replay |
| `RoleCache` | the permission mask of one user in process, Redis and database |
| `Admission` | the rate limiter with its Redis and in-memory stores, bans |
| `Gate` | block list and maintenance mode of the authentication middleware, startup |
| `Mailing` | an administrator's mailings: slot, batches, retries, cancel, report |
| `Restock` | stock subscriptions and the notifiers that claim them |
| `AuditTrail` | audit buffer, flusher, write-through, shutdown |
| `RowLocks` | which rows each kind of session locks and in which order |
| `MCServices` | instances of the eight modules above |
| `StorageProofs` | TLAPS proofs about `Caching` and `RowLocks` |
| `AccessProofs` | TLAPS proofs about `Admission` and `RoleCache` |
| `ServicesProofs` | TLAPS proofs about `AuditTrail`, `Gate`, `Restock`, `Mailing`, and about `MCServices`: extends `StorageProofs` and `AccessProofs` |
| `Staff` | registration, roles, role dialogs, assignment, seeding |
| `SupportDesk` | tickets, messages, links to orders, by customers and staff |
| `Storefront` | one customer's shop session: FSM state, data, the screen drawn last |
| `Lists` | the paginated lists over cached or fresh counts |
| `Catalogue` | the staff's catalogue dialogs against each other and against purchases |
| `MCDialogs` | instances of the five modules above |
| `DialogsProofs` | TLAPS proofs about the five conversations and about `MCDialogs` |
| `SumTheorems` | sums over finite sets, greatest elements and sorted listings, for the proofs |

### Orders

A session without an outside call is one action: `BuyApi` and `BuyStock` are
`buy_item_transaction` for the two kinds of goods (the asyncio checkout lock and
the row locks make it atomic), `ManualRefund` is the panel's refund,
`TickNoop` and `TickNoLink` are fulfilment ticks that call nobody.  A tick that
calls the provider keeps the order row locked during the call, so it is
`TickStart` followed by one of `TickDelivered`, `TickPending`, `TickRetryable`,
`TickFatal`, `TickError`, with everybody else running in between.  `placed`
says whether a call that failed had reached the provider.

The worker is one loop with a position: `SelectHung`/`FailHung` is the sweep of
hung orders (one session for the batch: `BatchOpen` keeps other sessions out
while it runs), `ClaimProcessing` takes ids in a session of its own, ticks run
through them in order, `NotifyRead`, `NotifySend` or `NotifyFail`, and
`NotifyMark` are the steps of `notify_order_delivery`.  `EditLink` is the panel's
change of provider links, `Age` the passing of `FULFILLMENT_HUNG_SECONDS`,
`Crash` a restart: open sessions roll back, tasks and the worker's position are
lost, a call in flight may have reached the provider.

`OrderBook` is what all of this promises, without tasks, worker, providers or
crashes: `Pay`, `Deliver`, `Sell` (both at once, for goods in stock) and `Undo` of one
order.  The terms of an order never change once it is paid, a reward is part of
its total and goes to somebody else than the buyer, an undone order takes the
reward back, and balances move in these four steps only.  `Orders` maps its rows to
it as they are (`KeepsTheBook`); the statuses `CREATED`, `FAILED` and `EXPIRED`, which the
book does not have, are never committed.

Abstracted: prices, sales and promo codes are the set `Totals` an order may
cost; the contents of goods, snapshots and messages are left out; `ext` and
`sent` count what the outside world saw; `ext` tells the external orders whose answer
came back to a session that commits from those whose answer was lost, with a
timeout, an error or a crash.  The retry limit is the same for every link.  `ext` stops
counting at `MaxExt` of either kind, enough to see a second order.

### Payments

`CreateInvoice`, `RecordPending`, `ShowInvoice` are the three steps of
`process_replenish_balance` with an await between each; `FailRequest` and `Crash`
interrupt them.  `TopUp` is the body shared by `process_payment_topup` and
`process_payment_with_referral`.  A handler that has learnt that an invoice is
paid sits in a *slot* (`CheckAsk`, `Webhook`) until `JobCredit` or `JobError`, so
its knowledge may be stale.  `RecoverSweep` copies pending rows, `RecoverAsk`,
`RecoverCredit`, `MarkFailed` work through the copies.  `Cleanup` deletes old
rows.  Kopecks are integers; a Stars invoice is rounded down to whole roubles
as the code does.

`Age` encodes how the code's periods relate: a row is old enough for the cleanup
(days) only when its invoice (minutes) is no longer payable, a conversation in
Redis (`FSM_TTL`, an hour) has ended, and the five-minute sweep has had its turn
at a paid CryptoPay invoice.  With the in-memory conversation store
(`FsmExpires = FALSE`) the second does not hold, and the amount a late Platega
check credits may be that of a newer conversation; the theorems assume Redis.

At this commit no dialog can create a Platega row (see the finding about
`PaymentRequest`), yet its webhook and button handle such rows, so `Init` lets the
table hold some.  `telegram_fiat` is refused in the same place and its handler
is the one of Stars.

### Carts

`checkout_cart_transaction` locks the user's row, reads the cart without a lock and
then holds goods, stock and codes until it commits.  It is two steps: `Confirm`
reads the lines, and one of `Checkout`, `DropUnavailable`, `AbortCheckout` does
the rest; `RetryCheckout` starts the session again.  In between the user's row
keeps other charges of that user out (`BuyItem`, `Redeem`) and, through the
foreign key, new lines (`AddInsert`); existing lines can be edited and deleted.
`add_to_cart` is `TapAdd` and then, in its own session, `AddRefused`,
`AddIncrement`, or `AddCount` followed by `AddInsert` or `AddConflict`, since the
number of lines is read without a lock.  `OpenDialog` stores the screen's total
in the conversation, `ClearConversation` is what removes it there while the
message stays.

The prices are those of the code: `EffectivePrice`, `Discounted`, `SplitAmount`.
The screen (`ViewCodes`, `ViewTotal`) and the checkout (`CheckoutCodes`,
`CheckoutTotal`) are translated separately, as they are in the source, so that
their agreement can be a property.  `supplied`, `discounts` and `surprised` are
history: what was ever stocked, how many lines a code made cheaper, and who was
charged another total than the dialog's.  `ordered` is what `orders.goods_id` refers
to: `DeleteGoods` is refused for a good that a single purchase has ordered (RESTRICT),
and not for one that only carts have sold, since a checkout writes no order and
`bought_goods` refers to no good.

Abstracted: the three short reads of the screen are one step; whether a good has
an infinite template row does not change; a code bound to a category is not told
from one bound to a good; the referral reward of a purchase is in `Orders`.

### Caching, RoleCache

`Caching` gives every key a row version in the database and an entry in Redis.
`CommitWrite` commits and schedules an invalidation (`safe_create_task`);
`RunInvalidation` runs it later, through `DeleteMany` or `InvalidatePattern`,
which reach Redis, or find it gone and record the key (up to `PendingCap`, beyond
which only the overflow flag is set).  `CheckHealth` and `ReplayStep` are the
health loop and the replay, one Redis call at a time, so that Redis can fail
again half way.  `FlightGet` .. `FlightStore` are the awaits of `single_flight`.
`LinkDown`/`LinkBack` are Redis itself; the manager notices at its next call.  An
entry filled from a read that a commit overtook is marked `raced`: no
invalidation is due for it any more and it stays until its lifetime ends.

Outside the properties: `categories:count` is under none of `_KNOWN_PREFIXES`, so an
overflow forgets it; an exception that is not a connection error loses the
invalidation; a bot that starts without Redis runs without a cache; the
statistics are bounded by their lifetime only.  The docstring of `single_flight`
says "at most once across concurrent callers": a leaving caller removes the
lock, and callers that come afterwards queue on a new one, so it is once per
lock (`OneComputationPerLock`).

`RoleCache` follows `resolve_role_cached` await by await for two concurrent
lookups of one user while the mask changes, with the deletes in process and
in Redis that follow the change.

### Admission, Gate

`Admission` counts requests per tick of a sliding window in both stores;
`StoreInUse` is the choice the middleware makes from the manager's (late)
knowledge of Redis.  `Verdict` and `Record` are the Lua script and its in-memory
twin.  `Gate` models block, unblock and the loading of the block list as a
database call and a later change of the set in memory, and the order of startup
(`EndLoading` before `SetupCaching`).

### Mailing, Restock, AuditTrail

`Mailing`: `Receive` takes the administrator's slot before anything is awaited,
`Launch` starts the manager, `Answer`/`Again`/`Tally` are one batch under
`asyncio.gather` with its retries, `Cancel` acts between batches.  `Restock`:
`LockRows` and `PopRows` are the two statements of `pop_stock_subscribers`, `Tell` one
message.  A subscription made from a screen that was drawn before the restock
waits for the next one, and what was claimed is lost if the process dies.
`AuditTrail`: `LogAudit` buffers or, when the buffer is full or inactive, writes
through; `TakeBatch`/`WriteBatch` are the flush around its database call;
`CancelFlusher` is the shutdown.

### RowLocks

Each kind of session is the sequence of locks it takes (`CheckoutLocks`,
`BuyLocks`, `FulfilLocks`, `RefundLocks`, `TopupLocks`), one at a time.  A lock is
`SELECT ... FOR UPDATE`, or the `FOR KEY SHARE` that PostgreSQL takes on the user
a flushed `BoughtGoods` row refers to: two shares of a row go together, everything
else conflicts.  The session factory has `autoflush=False`, so a share comes where the
code flushes: in a fulfilment before the bonus locks the buyer (`fulfillment.py:76-88`,
then `referral.py:39`), in a purchase after the buyer and the position
(`transactions.py:188`).  Rows a session inserts itself, and shares on rows it
has for update anyway, block nobody else and are left out.  `EndEarly` is a session that
ends before its last lock: refused, an API good without a unit to record, no bonus due.
The database ends a cycle by failing one member (`Abort`): the checkout retries, the
worker takes the order up again at its next tick, the others report an error.

The sorting of goods in the checkout does prevent cycles over goods.  What remains,
and `services` reaches: two fulfilments of one customer's orders, each with the share of
the customer's row and wanting it for update; a gift against a checkout of its recipient,
who holds their own row and wants the position the purchase has; a checkout of
a referrer against a purchase by a user they invited; and carts of different goods
with the same two codes.  `CyclesNeedASecondUser` says that there is no other kind: some
session of the cycle waits for a promo code, or has one lock on a user and wants
another.  Out of scope are the sessions of the staff over goods, roles and balances.

### Staff, SupportDesk

`Staff` keeps roles, users and the dialogs with the permissions they remember.
Creating, editing, deleting and assigning are sessions that race; `RestartStaff`
runs the seeding of `Role.insert_roles`.  What the model shows besides the
properties: a restart gives back permission bits taken from a seeded role, an
owner whose first contact is a button gets role 1, somebody who was demoted can
finish an open dialog, and the stale user cache lets the role of a SUPERADMIN be
changed for a while.

Role 1, which `handlers/user/main.py` (lines 42 and 109) gives to everybody who
registers, is protected by its default flag only.  An owner who renames role 2
and then role 1 to SUPERADMIN makes the next start (`Role.insert_roles`,
`models/main.py:122`) take that flag from role 1; renamed again, it can be
deleted, and every registration fails on the foreign key.  The ghost `demoted`
says that a start has done this, and `RolesStand` promises role 1 until then.  The
attempt to prove `RolesStand` found this: it takes five names and four role
operations, one of each more than `dialogs` has.

`SupportDesk` splits every session in `Begin...` (reads and checks) and `End...`
(writes), up to two at a time.  Nothing locks between the search for an active
ticket and the insert; `overlapped` and `reopened` name the customers for whom
that may have happened, and the properties are about the others.

### Storefront, Lists

`Storefront` is one customer: `fsm`, `data` (list, page, position, promo code,
recipient) and `screen`, the message drawn last.  Any button of that screen, of the
menu, or text may come; positions are deleted by the staff and purchases run
across other steps.  Three things drop the session and leave the message: `RulesUnset`,
the rules button when there are no rules (an alert and `state.clear()`),
`ExpireSession`, the lifetime of state and data in Redis, each on its own, and
`RestartBot`, which drops both with the `MemoryStorage` and nothing with Redis.  The
ghost `since` says what has happened under the message drawn last.  A dropped
session makes the paging and Back buttons of a list or card dead, which
`BrowsingButtonsWork` leaves out; a row pressed then opens what it shows or answers "not
found" (`RowsOpenTheirItem`), and a confirmation buys what it shows or nothing
(`SessionIsHonest`).  Not in the properties, but visible in the model: when the
position is gone `back_to_item` restores a state and draws nothing; a purchase
that ends after a newer gift confirmation was drawn wipes its recipient; rows are
remembered by page number only, so a button of an older list on the same page
number opens a row of the newer one; buttons of older confirmations act on the
session as it is now.

`Lists` draws pages of the eleven kinds of list from counts that are cached for
`CountTtl` or read now.  A position's count leaves out reserved units while its
rows do not, and a cached 0 makes a referral list say that it is empty for up
to a minute.

### Catalogue

Editors walk through the FSM states of adding, restocking, updating, deleting
and the category dialogs; a dialog remembers names, and what it commits is looked
up by name again.  A purchase holds its position's row from `BeginBuy` to
`EndBuy`.  Stock is abstracted to the kinds of `item_values` rows a position has.
`inOrders` are the positions that `orders.goods_id` names: `EndBuy` is the end of a single
purchase, which writes an order, or of a cart checkout, which does not.
`outdated` and `crossed` are history: dialogs about a position that somebody else
edited since, and positions such a dialog has stocked.

A position sold through carts only can be deleted: its sales stay in `bought_goods`
under its name.  `HistoryFollowsName` is about the sales of positions that exist; the
sales of one that is gone follow the next position of that name (section 3).

The model shows, outside the properties: `orders.goods_id` is RESTRICT, so deleting
a position with a single purchase, or its category, fails with an unhandled error and
leaves the dialog open, although `delete.py` says "CASCADE handles items"; a position
whose name was taken while it was being entered is silently not created and its
values go to the other one; two dialogs that cross mix endless and single
values; `item_values` left from a dialog that was left by an older button goes to
the next position; a category renamed or deleted meanwhile leaves its dialog
open.  Not modelled: the history rows of API orders, written with a name read
before the provider's answer, and renames in the web panel.

## 3. Runs

| Run | Bounds | Shows |
| --- | --- | --- |
| `orders_safety` | 2 users, referral 50 %, a stock and an API good, 2 orders, 1 provider, 2 retries, batch 1, 1 crash, lost answers | `TypeOK`, `Settled`, `BooksBalance`, `SentOnce`, `KeepsTheBook`, `PlacedNoMore` hold |
| `orders_liveness` | 2 orders, batch 1, 1 crash, lost answers | `ApiOrdersSettle` holds |
| `orders_gift` | 1 order | `AllOrdersSettle` fails: a gift of an API good |
| `payments_safety` | CryptoPay and Platega, two amounts, 2 slots, 1 crash | `TypeOK`, `CreditedAsPaid` hold |
| `payments_liveness` | 2 users, 1 CryptoPay invoice, 1 Stars charge with repeated and dropped updates, 1 crash | `CreditsOnce`, `CryptoPaidIsCredited` hold |
| `payments_platega` | 1 Platega transaction | `PlategaPaidIsCredited` fails |
| `carts_users` | 2 users, 1 good with 2 units, a discount and a credit for one use each, 1 edit | `TypeOK`, `PromoLimits`, `UnitsSoldOnce` hold |
| `carts_lines` | 1 user, 1 good with 2 units, 2 `add_to_cart` calls, lines of up to 2 with a discount, a sale, 1 edit | `LedgerBalances`, `LinesHaveGoods` hold |
| `carts_totals` | 1 user, 2 goods that do not sell out, 2 codes without a minimum, every start cart, 1 edit | `OneLinePerUse`, `TotalsAgree`, `AgreedWhileKept` hold |
| `carts_sold_out` | 2 users, 2 goods with 1 unit | `UnchangedCartSells` fails |
| `services` | one of eight services per behaviour; 2 keys, 2 readers, 2 writes, 1 outage, 1 restart, 1 recorded delete; lifetimes of 2 ticks; limits 2 and 1; 3 addressees in batches of 2; 2 restocks of 2 subscribers; 3 audit entries, buffer of 2; 3 edits of the block list; 7 sessions with locks | `NoMaskedWrite`, `InvalidationsLand`, `OneComputationPerLock` (`Caching`), `StaleRoleExpires` (`RoleCache`), `WindowBound`, `BanIsEarned` (`Admission`), `BlockListAgrees` (`Gate`), `ReportIsTrue` (`Mailing`), `ToldOnce` (`Restock`), `TrailComplete` (`AuditTrail`), `CyclesNeedASecondUser` (`RowLocks`), `ServicesTypeOK` hold |
| `dialogs` | one of five conversations per behaviour; 3 people, 4 roles, 2 permissions, 3 role operations; 2 customers, 2 tickets, 4 sessions of support; a category of 3 positions on two pages, a search of 2, 6 taps; 2 tables of up to 3 rows; 2 editors, 2 positions, 3 catalogue dialogs, 1 purchase | `NoEscalation`, `RolesStand` (`Staff`), `TicketQueueIsTrue` (`SupportDesk`), `BrowsingButtonsWork`, `SessionIsHonest`, `RowsOpenTheirItem` (`Storefront`), `PagesSettle` (`Lists`), `HistoryFollowsName` (`Catalogue`), `DialogsTypeOK` hold |

Why the bounds are enough: the hazards are about one order or one payment met by
two or three actors.  Two orders give a batch limit somebody loses to and a
reward somebody spends; two retries give both the retry and the exhaustion; two
slots give two handlers with the same stale knowledge; one crash gives a restart
in every gap.  The proofs remove the bounds for what they cover.  For the carts,
`MaxEdits` = 1 puts one change by the staff or by time into every gap of a
checkout, `Slots` = 2 lets two `add_to_cart` calls race, and the funds are enough
for one purchase more than a limit allows.  `carts_totals` leaves out
what breaks the agreement of the totals, goods that sell out (`carts_sold_out`)
and codes with a minimum (below), and only that.

`services` and `dialogs` each hold several modules that share no variable; the
variable `focus`, chosen at the start, says which one a behaviour is about, so
the states add up instead of multiplying.  Their limits are set one above the
case of interest: a window of two and a third request, a buffer of two and a
third entry, a record of one missed delete and a second one, a short last batch
after a full one, a list that ends at a page and one row past it, two role
dialogs that cross and a third step to profit from it.  The bounds of `services`
that count (`MaxWrites`, `MaxOutages`, `MaxEdits`...) and of `dialogs` (`MaxTaps`,
`MaxWork`, `MaxDialogs`...) end a behaviour, so these runs do not check for deadlock.

The runs expected to fail each put the sentence of a document, comment or
message of the repository to the test; the `findings` of `PROJECT.json` quote the
sentence and the line that disagrees.

### Disagreements without a run of their own

The models show more of these; each is reproduced by changing a configuration.

* `bot/i18n/strings.py:383` promises a message when the goods are ready.  An order
  that the purchase-time task completed is never announced, and a send that
  failed is not repeated: `BuyerIsNotified` fails under `FairSpec`.
* `docs/tz/03-orders.md:30` lets an operator refund any completed order.  The storno
  of a reward the referrer has spent violates `CHECK (balance >= 0)` and fails the
  session: `RefundPossible` fails as soon as alice spends the reward of bob's order.
* `README.md:280` lists Platega and Telegram Payments as gateways.  The pattern of
  `PaymentRequest` (`bot/misc/validators.py:13`) admits neither:
  `ConfiguredGatewaysServe` fails with those gateways enabled.
* The docstring at `bot/database/methods/transactions.py:339` says that the cart view
  and the checkout agree.  The view holds a code's minimum against the price before
  the sale (`read.py:829`), the checkout against the sale price (`transactions.py:453`):
  `TotalsAgree` fails with `Terms <- TermsFromTen`, price 10 and a sale of 50 %, on a
  good that cannot sell out.
* `bot/i18n/strings.py:1166` says that a cart holds ten items at most.  The lines are
  counted without a lock (`create.py:321-328`): `CartNotOverfull` fails with two goods,
  two slots and room for one line.  `CartOverrunBounded` proves that it is passed by one
  line less than there are calls under way, and never by more.
* `docs/tz/07-fulfillment.md:17` says that a retry does not buy from the supplier a second
  time, and `docs/MEMORY.md:355` that `WizardProvider` posts orders with an
  `Idempotency-Key`.  `create_external_order` passes `idempotency_key`, but
  `WizardProvider.create_order` (`wizard.py:144`) sends it nowhere, and a create that timed out
  (`wizard.py:100`) is retried: `OneExternalOrder` fails as an invariant of `orders_safety`.
  `PlacedNoMore` is what does hold.
* `README.md:399` says that renaming or deleting a product keeps the purchase history
  consistent.  A cart checkout writes `BoughtGoods` without an order
  (`transactions.py:515-525`), so a product sold through the cart can be deleted; its sales
  keep the free name, and a rename of the next product of that name updates them too
  (`transactions.py:671-676`): `SalesOfTheGoneStand` fails as a property of `dialogs`.
* The comment at `bot/database/methods/transactions.py:500` says "Refuse to charge a
  total the user did not agree to."  When another dialog clears the conversation
  or `FSM_TTL` passes, the confirm button remains, the handler passes no total
  (`cart.py:324-326`) and the check is skipped: `AgreedTotal` fails as an invariant
  of `carts_totals`.  `AgreedWhileKept` is what does hold.
* `bot/middleware/security.py:243` says "Restore maintenance mode from Redis".  `main.py`
  calls it (line 135) before `_setup_caching` has made the cache manager (line 150),
  so nothing is read and the bot opens: `MaintenanceSurvives` fails as an invariant of
  `services`.
* `bot/database/models/main.py:74` says that seeding renames the legacy role.  With a role
  called OWNER beside SUPERADMIN the rename breaks the unique name and the bot
  does not start: `SeedingSucceeds` fails as an invariant of `dialogs`.
* `bot/database/methods/delete.py:62` says that deleting a role "Fails if users are
  assigned".  A role assigned between the count and the deletion is taken from its user:
  `DeleteSparesUsers` fails as an invariant of `dialogs`.
* `AuditBuffer.stop` says "Stop the flusher and write out whatever is still buffered."
  A batch whose insert is cancelled has left the buffer and is not written:
  `StopWritesOut` fails as an invariant of `services`.

### Fairness

`Orders`: the worker's loop is restarted for ever by `_run_periodically`
(`WF(WorkerStep)`), HTTP calls have timeouts (`WF(TickEnd)`), the event loop runs
a scheduled task (`WF(TaskStep)`), and time passes (`WF(Age)`).  Which answer a
provider gives, whether an operator acts and whether anybody buys is left open.

`Payments`: the sweep runs for ever (`WF(RecoverStep)`) and a row becomes an hour
old.  Strong fairness of `RecoverAsk` and `RecoverCredit` says CryptoPay and the
database do not fail at every attempt, which a retrying sweep needs.  Users, the
webhook and Telegram are not assumed to do anything.

`services`: the event loop runs a scheduled invalidation and the health loop runs
for ever (`WF` of `RunInvalidation`, `CheckHealth`, `ReplayStep`), and an outage of
Redis ends (`WF(LinkBack)`).  `InvalidationsLand` needs nothing of readers or writers.

Deadlock is checked in all runs but `services` and `dialogs`.

## 4. Proofs

Every theorem holds for every value of the constants (any number of users,
goods, sessions, windows, retries, any bound) under the `ASSUME`s of the modules,
which TLC evaluates on the instances.  Of each safety property there is an
inductive invariant: the property with what it needs to follow from the step
before.  They are given here with the reason.

**What is assumed of the constants.**  Sets that are summed or counted over are
finite (`Users` and `Goods` of the carts, `Readers`, `Jobs`, `Tables`).  A value that
stands for "none" (`NoEntry`, `NoPosition`, `NoTicket`, `NoRow`, `NoCount`,
`Unregistered`, ...) is none of the values it is told from.  Ids are natural numbers, a
single purchase is of one good, a catalogue has a name and a category to give, a
category and a search list positions,
and a ban lasts at least as long as the window it is earned in (with
`ban_duration=300` and `global_window=60` it does).

**`SumTheorems`.**  The sum of a function over a finite set (`SumFunctionOnSet`) is
a fold over a `CHOOSE`n order.  The library's induction principles take an
operator and cannot be used here, so `MinimalSubset` gives induction over a
finite set in the form of a least counterexample; from it follow that the sum
is a natural number, that any element can be taken out first (`SumRemove`), and
that changing the function at one point changes the sum by the difference there
(`SumChange`).  The ledgers, limits and windows below rest on these.  The same
induction gives a greatest element of a finite set of numbers (`GreatestNat`) and its
elements in ascending order (`AscendingExists`), for the lock order and for the pages of
the storefront.

**`OrdersProofs`.**  `Invariance` proves `IInv == TypeOK /\ Known /\
HungRowsUnticked /\ Settled` inductive.  `Settled` alone is not: it needs
`Known` (a created order has a real buyer, whose balance the settlement
updates, and prices in `Nat`) and `HungRowsUnticked` (an order selected by the
hung sweep is still `PROCESSING`, unlocked and unrewarded when the loop reaches
it, which is what SKIP LOCKED and the open session guarantee).  From it follow

* `TypeCorrect`: `Spec => []TypeOK`, so no balance is ever negative;
* `AlwaysSettled`: `Spec => []Settled`;
* `OrdersKeepTheBook`: `Spec => KeepsTheBook`.  There is a lemma per action of the book
  (`PayStep`, `SellStep`, `DeliverStep`, `UndoStep`), and `BookStep` sends every action of
  `Orders` to one of them or to a stutter: the five ways to a refund to `Undo`, the end of
  a tick that delivers to `Deliver`, the rest to nothing.  It needs of `IInv` that a ticked
  order is `PROCESSING` and that no order stays `FAILED`; `RewardBounded` is the arithmetic
  of the percentage;
* `BalancesMoveOnce`: `Spec => StepBalances`, the money of the same steps by the difference
  in what each order has moved;
* `BooksAlwaysBalance`: `Spec => []BooksBalance`, by `StepBalances` at every step and
  `SumChange`.

`AnsweredOnce` proves `PlacedNoMore`, lost answers and crashes included: once a provider
has answered that it took an order, nothing more is placed for it.  The inductive part
is `Recorded`: an order that was answered has the external id on its row.  The tick that
gets the answer keeps the id in the same session (`RecordedTick`), nothing takes it
away, and with an id on the row a tick asks for a status and never creates, nor
can a crash find it creating (`RecordedCrash`).  An order whose answer was lost has no id,
which is where `OneExternalOrder` fails (section 3).

`AnnouncedOnce` proves `SentOnce`.  `SentInv` adds that an announced order is over (no
tick completes it again), that the order the worker is about to announce has
not been announced, and that a tick of the worker is of the order it is at.  A
crash between the send and the mark loses the worker's position, and the order
is over, so nothing announces it again.

**`PaymentsProofs`.**  `IInv` joins `TypeOK` and `CreditedAsPaid` with what the
late actors know: `JobsOK` (what a slot holds is a paid invoice with its
amount), `SweepOK` (what the sweep saw was final: paid and expired invoices stay
so), `UpdatesOK`, `InvoicesOK` and `ConversationsOK` (a conversation that names a
Platega invoice without a row cannot exist while it is in Redis).  Under
`FsmExpires` it gives

* `PaymentsTypeCorrect`, `AlwaysCreditedAsPaid`;
* `Implements`: `Spec => CreditsOnce`, every step of `Payments` is a step of
  `TopUps` or leaves its variables alone.

**`CartsProofs`.**  `CartsInv` is `TypeOK` with `AddsKnown`: an `add_to_cart` under way is
of a known user and good.  That prices, discounts and totals are natural
numbers is proved on the way, rounding included, and with it that no charge
makes a balance negative.  On `CartsInv` rest

* `LedgerAlwaysBalances`, `LinesAlwaysHaveGoods`, and `ChargedAsAgreed` of the steps;
* `UnitsAlwaysSoldOnce` and `PromoLimitsHold`: the sums over users change by what the
  one charged user bought or used (`SoldChange`, `RowsOneMore`).  The limits hold
  because the counter and the rows are compared and increased under the row
  lock of the code, and `ChosenOnce`: a checkout counts a code once however many
  lines carry it;
* `OneLineAlwaysPerUse`, for the same reason;
* `CheckoutPricesAsShown`: screen and checkout come to one total, and the confirmed cart is
  not turned down because of it, whenever no line is sold out and no minimum lies
  between the price and the sale price of its line (`AgreeInStock`).  Both hand the
  same lines to `Chosen` once they accept the same codes, so `SamePricing` has only to
  compare the codes line by line.  `TotalsAlwaysAgree` is the case of goods that do not
  sell out and codes without a minimum, which is what `carts_totals` checks.  The two
  exceptions are the ones that the disagreements above show, and the theorem says that
  there is no third;
* `CartOverrunBounded`: `LinesFit` counts a user's lines and the calls that have counted them
  and not inserted yet.  A call counts only if there is room, so after it the sum is at
  most `CartMaxItems - 1` and all the calls; an insert moves one from the calls to the
  lines; every other step shrinks one of the two.

**`StorageProofs`.**  `MaskInv` is `NoMaskedWrite` by the stage an invalidation is in
(scheduled, recorded, being replayed), with the fact that a replay that does not
run holds nothing: a key leaves one stage only for the next, or its entry is
gone (`Settles`).  It gives `WritesNeverMasked`.  `FlightInv` gives `AlwaysOneComputation`:
a lock has one caller inside and belongs to one key, the dictionary names only
locks somebody refers to (so a fresh lock is nobody's), and a value computed
under a lock is in Redis or its caller is about to store it.  `CacheTypeCorrect`
includes that the record of missed deletes stays within its cap.

`CyclesAlwaysNeedASecondUser`: `HeldInv` says that no two sessions have locks that
conflict and that a session has the locks it has asked for so far.  `Rank` orders the
rows (orders and payments, users, then goods by id), and `LocksOrdered` proves of each
kind of session that it asks in that order, but for promo codes and for a user's row
when it has one already: a referrer's, a recipient's, or its own after the
share.  In a cycle without those, the session that waits for the lock of greatest rank
waits for one that has it and wants a greater one.  `LocksFormed` adds that no session is
tried more often than `max_retries` says.

**`AccessProofs`.**  `AdmissionInv` says that what the stores record is what was let
through, within the limits, and that no recorded request falls in the store's
last ban; `WindowsAlwaysBounded` and `BansAlwaysEarned` follow.  The last part is where
the ban must outlast the window.  `RoleInv` bounds how long ago a bitmask was
taken away by where it is: in a lookup that read the database by the lookup's
age, in Redis by the entry's age and that lookup, in a lookup that found it there
by one lookup more, in the process by the sum.  `StaleRolesAlwaysExpire` is the last.

**`ServicesProofs`.**

* `TrailAlwaysComplete`: `TrailInv` adds that a flusher that is not writing holds
  nothing, that a scheduled entry has not been logged, and that a row given up is
  held nowhere.
* `BlockListAlwaysAgrees`: `BlockInv` says what holds when it is not quiet: unless
  changes crossed, every load and change under way brings what the database says.
* `AlwaysToldOnce`: `RestockInv` keeps every row in one place (table, one notifier,
  dropped) and its number given out, which makes the count of a new row exact.
* `ReportAlwaysTrue`: `MailInv` says that a mailing under way has its slot, that the
  counters are those of the batches before the one under way, and that those
  before it are closed and those after it untouched.
* `ServicesFormed`, `ServicesKeepFaith`: `ServicesApart` shows that a behaviour of `MCServices` is
  one of each service, so their invariants carry over.  The first has among the rest
  that an administrator has one mailing under way at most (`MailFormed`: the slot is one
  letter's).

**`DialogsProofs`.**

* `HistoryAlwaysFollows`: the rename of the history goes by name, so `CatalogueInv`
  needs that names are unique and that a purchase under way still has its
  position's name, which its row lock guarantees.  The sales left by a deleted position
  cannot disturb it: a position that takes over the name has none of them by id.
* `QueueAlwaysTrue`: `DeskInv` adds what a session under way knows (its ticket is its
  customer's; what it read is true unless another session of that customer
  overlapped) and that two sessions of one customer mark the customer.
* `NobodyEscalates`, `RolesAlwaysStand`: `StaffInv` says of every bit nobody spread that
  role 2 alone is called SUPERADMIN and has it, so that seeding gives it to no other
  role; that only holders have that role under edit; that no assignment under
  way is of a role that has it; and that role 1 does not have it, which is what
  makes registration harmless.  Role 1 keeps its default flag until `demoted`.
* `ButtonsAlwaysWork`, `SessionAlwaysHonest`: `StoreInv` adds that the session's data is
  well formed and that a code fits its position.  What drops the session either
  marks it (`DropActions`) or leaves the state alone, and every new drawing by then
  comes with the state its buttons need.
* `RowsAlwaysOpenTheirItem`: `ShopInv` types session, screen and remembered lists, and
  `RowsRemembered` says that a list on the screen is the one the session remembers for
  that page, or that the session was dropped and names neither rows nor category or
  query, so that nothing can be looked up by the index.  `PageOf` lists the places of a page in ascending order; that there is
  such a listing (`AscendingExists`) makes a page a sequence of positions.
* `CatalogueFormed`: `CatalogueTypeOK` says that endless and single values meet only where
  editors crossed.  `GoodsFormed` becomes inductive with `DialogsInformed`: what a dialog goes
  by (its new name is free, the position it just made is empty, its position takes
  units) is still so, unless another editor's step has outdated the dialog.
* `PagesAlwaysSettle`: `ListInv` says that a cached count is true once the rows have been
  still for longer than it is old; `PagesAreEnough` is the arithmetic of the last page.
* `DialogsFormed`, `DialogsKeepFaith`: the composition, by `DialogsApart`.  `ListsFormed` needs that
  no more units are reserved than a position has.

**Only model-checked.**  Liveness under fairness is out of the prover's reach:
`ApiOrdersSettle`, `CryptoPaidIsCredited`, `InvalidationsLand`.  Every other property of a
passing run is a theorem; `TotalsAgree` and those of `Payments` under the condition on the
constants that is given with them, which their runs meet.

## 5. Not modelled

Wording, keyboards, formats, migrations and the generic CRUD of the web panel
have no state worth a model.  `OrderStatus.CREATED` with its reservation, cancel
and expiry functions has no caller that leaves such an order behind; it is
planned as a component of its own.  The staff's sale, promo-code and balance
dialogs end in sessions that `Carts` and `Payments` contain as actions; as
conversations they are not modelled.  Of the middleware, the checks of
`SecurityMiddleware` look at one update and keep nothing; the panel's login limiter
is left out.  Metrics and analytics are counters nothing depends on.

## 6. Plan

1. `Orders`, `OrderBook`, `Payments`, `TopUps` (done; proved).
2. `Carts` (done; proved).
3. `RowLocks`, `Caching`, `RoleCache`, `Admission`, `Gate`, `Mailing`, `Restock`,
   `AuditTrail` (done; safety proved).
4. `Staff`, `SupportDesk`, `Storefront`, `Lists`, `Catalogue` (done; proved).
5. The compositions `MCServices` and `MCDialogs` (done; proved).
6. `StockReservations`: reserve, release, cancel, expiry.
7. `Pricing`: parsing, rounding and splits as functions against reference definitions.
8. The checkout of `Carts` as an implementation of `OrderBook` too, a line being an order.
9. The remaining staff dialogs and the panel's edits.
