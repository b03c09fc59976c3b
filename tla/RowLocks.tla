------------------------------ MODULE RowLocks ------------------------------
(***************************************************************************)
(* The row locks of the sessions that move money and stock, in the order   *)
(* each takes them: the cart checkout and the single purchase              *)
(* (bot/database/methods/transactions.py), the fulfilment of an order and  *)
(* its referral bonus (bot/misc/services/fulfillment.py, referral.py), the *)
(* operator's refund (bot/database/methods/orders.py) and the top-up       *)
(* (bot/payments/credit.py). A lock is either SELECT ... FOR UPDATE or the *)
(* FOR KEY SHARE that the database takes on the user a flushed row refers  *)
(* to. The session factory does not flush by itself (autoflush=False), so  *)
(* the second kind comes where the code flushes. Stock units are skipped   *)
(* when locked, or taken under the lock of their position. A lock lasts    *)
(* until the session ends, and the database aborts one session of a cycle  *)
(* (external).                                                             *)
(***************************************************************************)
EXTENDS Naturals, Sequences, FiniteSets

CONSTANTS
    Jobs,           \* the sessions
    JobOf,          \* per session: [op, user, recipient, goods, promos, referrer, order]
    MaxRetries,     \* max_retries of checkout_cart_transaction
    Nobody

Operations == {"checkout", "buy", "fulfil", "refund", "topup"}

ASSUME RowLocksAssumption ==
    /\ MaxRetries \in Nat \ {0} /\ IsFiniteSet(Jobs) /\ Nobody \notin Jobs
    /\ \A j \in Jobs : /\ JobOf[j].op \in Operations
                       /\ JobOf[j].goods \in Seq(Nat) /\ JobOf[j].promos \in Seq(Nat)
                       /\ JobOf[j].op = "buy" => Len(JobOf[j].goods) = 1

VARIABLES
    taken,          \* per session: how many of its locks it has asked for and got
    phase,          \* per session: "ready", "running", "over"
    attempts,       \* per session: attempts of the call begun
    counter         \* _checkout_lock of buy_item_transaction

lockVars == <<taken, phase, attempts, counter>>

-----------------------------------------------------------------------------
(***************************************************************************)
(* What each session locks, in order                                       *)
(***************************************************************************)

Lock(mode, table, id) == [mode |-> mode, table |-> table, id |-> id]
ForUpdate(table, id) == Lock("update", table, id)
KeyShare(table, id) == Lock("share", table, id)

Each(table, ids) == [i \in 1..Len(ids) |-> ForUpdate(table, ids[i])]

\* credit_referral_for_order and reverse_referral_for_order, where they get
\* as far as the referrer.
Referrer(x) == IF x.referrer = Nobody THEN <<>> ELSE <<ForUpdate("users", x.referrer)>>

\* Mutant: the goods are locked in the order of the cart.
CheckoutLocksAsListed(x) ==
    <<ForUpdate("users", x.user)>> \o Each("goods", x.goods) \o Each("promos", x.promos)

Ids(ids) == {ids[i] : i \in 1..Len(ids)}
Ascending(S) == CHOOSE f \in [1..Cardinality(S) -> S] :
                    \A i, k \in 1..Cardinality(S) : i < k => f[i] < f[k]

\* checkout_cart_transaction: the user, the distinct goods ordered by id, then
\* the promo codes line by line. What it inserts refers to the same user.
CheckoutLocks(x) ==
    <<ForUpdate("users", x.user)>> \o Each("goods", Ascending(Ids(x.goods)))
        \o Each("promos", x.promos)

\* buy_item_transaction: the user, the position, the promo, the recipient the
\* purchased unit is recorded for, and the referrer.
BuyLocks(x) ==
    <<ForUpdate("users", x.user)>> \o Each("goods", x.goods) \o Each("promos", x.promos)
        \o <<KeyShare("users", x.recipient)>> \o Referrer(x)

\* fulfill_processing_order: the order, the recipient of the unit it records,
\* and then for the bonus the buyer and the referrer.
FulfilLocks(x) ==
    <<ForUpdate("orders", x.order), KeyShare("users", x.recipient),
      ForUpdate("users", x.user)>> \o Referrer(x)

\* manual_refund_order: the order, the customer, and the referrer when the
\* bonus is taken back. A fulfilment that ends in a refund locks the same.
RefundLocks(x) ==
    <<ForUpdate("orders", x.order), ForUpdate("users", x.user)>> \o Referrer(x)

\* process_payment_topup: the payment, then the user.
TopupLocks(x) == <<ForUpdate("payments", x.order), ForUpdate("users", x.user)>>

Locks == [j \in Jobs |->
    LET x == JobOf[j] IN
    CASE x.op = "checkout" -> CheckoutLocks(x)
      [] x.op = "buy" -> BuyLocks(x)
      [] x.op = "fulfil" -> FulfilLocks(x)
      [] x.op = "refund" -> RefundLocks(x)
      [] OTHER -> TopupLocks(x)]

RowLocksInit ==
    /\ taken = [j \in Jobs |-> 0] /\ phase = [j \in Jobs |-> "ready"]
    /\ attempts = [j \in Jobs |-> 0] /\ counter = Nobody

-----------------------------------------------------------------------------
(***************************************************************************)
(* Who waits for whom                                                      *)
(***************************************************************************)

SameRow(a, b) == a.table = b.table /\ a.id = b.id
\* Two shares of a row go together; an update goes with nothing.
Conflict(a, b) == SameRow(a, b) /\ "update" \in {a.mode, b.mode}

Taken(j) == {Locks[j][i] : i \in 1..taken[j]}
Wanted(j) == Locks[j][taken[j] + 1]
Asks(j) == phase[j] = "running" /\ taken[j] < Len(Locks[j])
Blockers(j) == {k \in Jobs \ {j} : \E l \in Taken(k) : Conflict(l, Wanted(j))}
Waiting == {j \in Jobs : Asks(j) /\ Blockers(j) # {}}

\* A cycle of waiting sessions: each waits for a lock that one of them has.
Cycle(S) == S # {} /\ \A j \in S : Blockers(j) \cap S # {}

\* The lock table is well formed: no two sessions have locks that conflict.
RowLocksTypeOK ==
    /\ counter \in Jobs \cup {Nobody}
    /\ \A j \in Jobs : taken[j] \in 0..Len(Locks[j]) /\ attempts[j] \in 0..MaxRetries
    /\ phase \in [Jobs -> {"ready", "running", "over"}]
    /\ \A j, k \in Jobs : j # k => \A a \in Taken(j), b \in Taken(k) : ~Conflict(a, b)

-----------------------------------------------------------------------------
(***************************************************************************)
(* Sessions                                                                *)
(***************************************************************************)

\* Single purchases run one at a time in the process.
BeginJob(j) ==
    /\ phase[j] = "ready"
    /\ IF JobOf[j].op = "buy" THEN counter = Nobody /\ counter' = j ELSE UNCHANGED counter
    /\ phase' = [phase EXCEPT ![j] = "running"] /\ attempts' = [attempts EXCEPT ![j] = @ + 1]
    /\ UNCHANGED taken

Acquire(j) ==
    /\ Asks(j) /\ j \notin Waiting
    /\ taken' = [taken EXCEPT ![j] = @ + 1]
    /\ UNCHANGED <<phase, attempts, counter>>

Release(j) ==
    /\ taken' = [taken EXCEPT ![j] = 0]
    /\ counter' = IF counter = j THEN Nobody ELSE counter

Return(j) ==
    /\ Release(j)
    /\ phase' = [phase EXCEPT ![j] = "over"] /\ attempts' = [attempts EXCEPT ![j] = 0]

Commit(j) == phase[j] = "running" /\ taken[j] = Len(Locks[j]) /\ Return(j)

\* The session ends before it has locked every row: a check refuses it, an API
\* position leaves the unit to its fulfilment, or no bonus is due.
EndEarly(j) == Asks(j) /\ taken[j] > 0 /\ j \notin Waiting /\ Return(j)

\* The database aborts a session of a cycle. The checkout runs again, up to
\* max_retries, and the worker takes the order up at its next tick (for it
\* MaxRetries is only a bound); the single purchase, the refund and the top-up
\* report an error.
Abort(j) ==
    /\ \E S \in SUBSET Waiting : j \in S /\ Cycle(S)
    /\ IF JobOf[j].op \in {"checkout", "fulfil"} /\ attempts[j] < MaxRetries
       THEN Release(j) /\ phase' = [phase EXCEPT ![j] = "ready"] /\ UNCHANGED attempts
       ELSE Return(j)

RowLocksNext == \E j \in Jobs : BeginJob(j) \/ Acquire(j) \/ Commit(j) \/ EndEarly(j) \/ Abort(j)

RowLocksSpec == RowLocksInit /\ [][RowLocksNext]_lockVars

-----------------------------------------------------------------------------
\* A session that asks for a user's row while it has a lock on one already: the
\* referrer's, a gift recipient's, or its own customer's after the share on it.
SecondUser(j) == Wanted(j).table = "users" /\ \E l \in Taken(j) : l.table = "users"

\* Sessions deadlock only through a promo code or a second user: "two
\* concurrent checkouts with overlapping carts acquire the row locks in the
\* same order and cannot form an AB/BA deadlock cycle", nor do they with any
\* number of purchases, fulfilments, refunds and top-ups, unless one of the
\* cycle waits for a promo code or holds one user's row and waits for a user's.
CyclesNeedASecondUser ==
    \A S \in SUBSET Waiting : Cycle(S) =>
        \E j \in S : Wanted(j).table = "promos" \/ SecondUser(j)
=============================================================================
