----------------------------- MODULE OrderBook -----------------------------
(***************************************************************************)
(* What an order promises: its terms are fixed when it is paid; it is then *)
(* delivered once, to the person the terms name, or the buyer gets the     *)
(* total back once; a reward for a delivery is part of the total and goes  *)
(* back with it; and no balance moves for any other reason.                *)
(***************************************************************************)
EXTENDS Integers

CONSTANTS
    Users, NoUser,
    Referrer,     \* who invited each user
    Ids           \* order ids

VARIABLES
    terms,        \* buyer, total and whom the order is a gift for
    stage,        \* NONE, PROCESSING, COMPLETED or REFUNDED
    reward,       \* what the referrer has of the order
    holder,       \* who was given the goods
    balance

bookVars == <<terms, stage, reward, holder, balance>>

BookInit ==
    /\ \A o \in Ids : terms[o].user = NoUser
    /\ stage = [o \in Ids |-> "NONE"]
    /\ reward = [o \in Ids |-> 0]
    /\ holder = [o \in Ids |-> NoUser]
    /\ balance \in [Users -> Nat]

\* Balances after the buyer of t gets `back' and the referrer `more'.
Moves(t, back, more) ==
    balance' = [u \in Users |-> balance[u] + (IF u = t.user THEN back ELSE 0)
                                           + (IF u = Referrer[t.user] THEN more ELSE 0)]

\* An order is made on terms the buyer can pay.
Agree(o) ==
    /\ stage[o] = "NONE"
    /\ terms'[o].user \in Users /\ terms'[o].total \in 0..balance[terms'[o].user]
    /\ terms' = [terms EXCEPT ![o] = terms'[o]]

\* The goods and the reward of an order on terms t are given.
Give(o, t) ==
    /\ stage' = [stage EXCEPT ![o] = "COMPLETED"]
    /\ holder' = [holder EXCEPT ![o] = IF t.gift # NoUser THEN t.gift ELSE t.user]
    /\ reward'[o] \in 0..t.total
    /\ reward'[o] > 0 => Referrer[t.user] \in Users \ {t.user}
    /\ reward' = [reward EXCEPT ![o] = reward'[o]]

\* An order is paid ...
Pay(o) ==
    /\ Agree(o)
    /\ stage' = [stage EXCEPT ![o] = "PROCESSING"]
    /\ Moves(terms'[o], -terms'[o].total, 0)
    /\ UNCHANGED <<reward, holder>>

\* ... and delivered, ...
Deliver(o) ==
    /\ stage[o] = "PROCESSING"
    /\ Give(o, terms[o])
    /\ Moves(terms[o], 0, reward'[o])
    /\ UNCHANGED terms

\* ... both at once when the goods are at hand, ...
Sell(o) ==
    /\ Agree(o)
    /\ Give(o, terms'[o])
    /\ Moves(terms'[o], -terms'[o].total, reward'[o])

\* ... or it is undone. What was delivered stays where it is.
Undo(o) ==
    /\ stage[o] \in {"PROCESSING", "COMPLETED"}
    /\ reward[o] > 0 => balance[Referrer[terms[o].user]] >= reward[o]
    /\ stage' = [stage EXCEPT ![o] = "REFUNDED"]
    /\ reward' = [reward EXCEPT ![o] = 0]
    /\ Moves(terms[o], terms[o].total, -reward[o])
    /\ UNCHANGED <<terms, holder>>

BookNext == \E o \in Ids : Pay(o) \/ Deliver(o) \/ Sell(o) \/ Undo(o)

BookSpec == BookInit /\ [][BookNext]_bookVars
=============================================================================
