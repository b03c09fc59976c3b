------------------------------- MODULE TopUps -------------------------------
(***************************************************************************)
(* What topping up a balance promises: a payment the gateway has taken is  *)
(* credited at most once, with the amount it was made for and to the user  *)
(* who made it (the docstring of process_payment_topup).                   *)
(***************************************************************************)
EXTENDS Integers

CONSTANTS
    Users, NoUser,
    Invoices      \* invoice and charge ids of every gateway

VARIABLES
    bill,         \* who each invoice is for and for how much
    paid,         \* invoices the gateway has the money of
    credited,     \* invoices whose amount is on the balance
    balance

topUpVars == <<bill, paid, credited, balance>>

Bills == [user : Users \cup {NoUser}, amount : Nat]

\* Invoices may be outstanding.
TopUpsInit ==
    /\ bill \in [Invoices -> Bills]
    /\ paid = {}
    /\ credited = {}
    /\ balance = [u \in Users |-> 0]

\* A user asks for an invoice.
Issue(i) ==
    /\ bill[i].user = NoUser
    /\ bill'[i] \in Bills /\ bill'[i].user # NoUser
    /\ bill' = [bill EXCEPT ![i] = bill'[i]]
    /\ UNCHANGED <<paid, credited, balance>>

\* The gateway takes the money.
Take(i) ==
    /\ bill[i].user # NoUser /\ i \notin paid
    /\ paid' = paid \cup {i}
    /\ UNCHANGED <<bill, credited, balance>>

\* The money reaches the balance.
Credit(i) ==
    /\ i \in paid \ credited
    /\ credited' = credited \cup {i}
    /\ balance' = [balance EXCEPT ![bill[i].user] = @ + bill[i].amount]
    /\ UNCHANGED <<bill, paid>>

TopUpsNext == \E i \in Invoices : Issue(i) \/ Take(i) \/ Credit(i)

TopUpsSpec == TopUpsInit /\ [][TopUpsNext]_topUpVars
=============================================================================
