------------------------------ MODULE Restock ------------------------------
(***************************************************************************)
(* Restock notices for one item: subscribe_to_stock                        *)
(* (bot/database/methods/create.py), unsubscribe_from_stock and            *)
(* pop_stock_subscribers (bot/database/methods/delete.py), notify_restock  *)
(* (bot/misc/services/restock_notifier.py) and the item card that offers   *)
(* the subscription (bot/handlers/user/shop_and_goods.py).                 *)
(*                                                                         *)
(* A subscription is a row <<customer, n>>, n telling one subscription of  *)
(* a customer from the next.                                               *)
(***************************************************************************)
EXTENDS Naturals, FiniteSets

CONSTANTS
    Watchers,       \* customers
    Restockers,     \* concurrent calls of notify_restock
    MaxTimes        \* bound: subscriptions per customer

ASSUME RestockAssumption == MaxTimes \in Nat

VARIABLES
    subs,           \* stock_subscriptions of the item
    times,          \* subscriptions each customer has made
    asking,         \* customers between the search and the insert
    notifier,       \* each call: the rows it has locked, then its recipients
    told,           \* notices sent to each customer
    dropped         \* ghost: subscriptions withdrawn, or claimed and lost in a crash

restockVars == <<subs, times, asking, notifier, told, dropped>>

Rows == Watchers \X (1..MaxTimes)
RowsOf(w) == {r \in subs : r[1] = w}
LockedRows == UNION {notifier[n].rows : n \in {m \in Restockers : notifier[m].pc = "locked"}}
RestockIdle == [pc |-> "idle", rows |-> {}]

\* Subscriptions and notifier calls are well formed.
RestockTypeOK ==
    /\ subs \subseteq Rows /\ times \in [Watchers -> 0..MaxTimes]
    /\ asking \subseteq Watchers
    /\ notifier \in [Restockers -> [pc : {"idle", "locked", "sending"}, rows : SUBSET Rows]]
    /\ told \in [Watchers -> 0..MaxTimes] /\ dropped \subseteq Rows

RestockInit ==
    /\ subs = {} /\ times = [w \in Watchers |-> 0] /\ asking = {}
    /\ notifier = [n \in Restockers |-> RestockIdle]
    /\ told = [w \in Watchers |-> 0] /\ dropped = {}

\* subscribe_stock_handler, subscribe_to_stock: finds no row of the customer.
AskSubscribe(w) ==
    /\ RowsOf(w) = {} /\ times[w] < MaxTimes /\ w \notin asking
    /\ asking' = asking \cup {w}
    /\ UNCHANGED <<subs, times, notifier, told, dropped>>

\* The insert; a row that has appeared since makes it a success without one.
Subscribe(w) ==
    /\ w \in asking /\ asking' = asking \ {w}
    /\ IF RowsOf(w) # {} THEN UNCHANGED <<subs, times>>
       ELSE /\ times' = [times EXCEPT ![w] = @ + 1]
            /\ subs' = subs \cup {<<w, times[w] + 1>>}
    /\ UNCHANGED <<notifier, told, dropped>>

\* unsubscribe_from_stock waits for a notifier that holds the row.
Unsubscribe(w) ==
    /\ RowsOf(w) # {} /\ RowsOf(w) \cap LockedRows = {}
    /\ subs' = subs \ RowsOf(w) /\ dropped' = dropped \cup RowsOf(w)
    /\ UNCHANGED <<times, asking, notifier, told>>

\* Mutant: the rows are read without a lock.
LockRowsUnlocked(n) ==
    /\ notifier[n] = RestockIdle /\ subs # {}
    /\ notifier' = [notifier EXCEPT ![n] = [pc |-> "locked", rows |-> subs]]
    /\ UNCHANGED <<subs, times, asking, told, dropped>>

\* pop_stock_subscribers: SELECT ... FOR UPDATE waits for the other notifier
\* and then finds what that one left.
LockRows(n) ==
    /\ notifier[n] = RestockIdle /\ subs # {}
    /\ subs \cap LockedRows = {}
    /\ notifier' = [notifier EXCEPT ![n] = [pc |-> "locked", rows |-> subs]]
    /\ UNCHANGED <<subs, times, asking, told, dropped>>

\* The delete of exactly those rows, and the commit.
PopRows(n) ==
    /\ notifier[n].pc = "locked"
    /\ subs' = subs \ notifier[n].rows
    /\ notifier' = [notifier EXCEPT ![n].pc = "sending"]
    /\ UNCHANGED <<times, asking, told, dropped>>

\* The broadcast reaches one recipient after the other.
Tell(n, r) ==
    /\ notifier[n].pc = "sending" /\ r \in notifier[n].rows
    /\ told' = [told EXCEPT ![r[1]] = IF @ < MaxTimes THEN @ + 1 ELSE @]
    /\ notifier' = [notifier EXCEPT ![n] =
          IF @.rows = {r} THEN RestockIdle ELSE [pc |-> "sending", rows |-> @.rows \ {r}]]
    /\ UNCHANGED <<subs, times, asking, dropped>>

\* The process dies: a claim that was committed is gone with its recipients.
RestockCrash ==
    /\ dropped' = dropped \cup UNION {notifier[n].rows : n \in
          {m \in Restockers : notifier[m].pc = "sending"}}
    /\ notifier' = [n \in Restockers |-> RestockIdle] /\ asking' = {}
    /\ UNCHANGED <<subs, times, told>>

RestockNext ==
    \/ \E w \in Watchers : AskSubscribe(w) \/ Subscribe(w) \/ Unsubscribe(w)
    \/ \E n \in Restockers : LockRows(n) \/ PopRows(n) \/ \E r \in Rows : Tell(n, r)
    \/ RestockCrash

RestockSpec == RestockInit /\ [][RestockNext]_restockVars

-----------------------------------------------------------------------------
\* The rows whose customers have still to be told.
Owed == UNION {notifier[n].rows : n \in {m \in Restockers : notifier[m].pc = "sending"}}

\* "two concurrent restocks cannot both notify the same user": a subscription
\* is told exactly once, or still waits, in the table or with one notifier,
\* unless its owner withdrew it or a crash lost it. One that is made while a
\* restock is being announced waits for the next.
ToldOnce ==
    /\ \A w \in Watchers :
          told[w] + Cardinality({r \in Owed \cup dropped : r[1] = w}) + Cardinality(RowsOf(w)) = times[w]
    /\ \A m, n \in Restockers : m # n /\ notifier[m].pc = "sending" /\ notifier[n].pc = "sending"
          => notifier[m].rows \cap notifier[n].rows = {}
=============================================================================
