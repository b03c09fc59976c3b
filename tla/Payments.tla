------------------------------ MODULE Payments ------------------------------
(***************************************************************************)
(* Topping up a balance: the conversation that asks a gateway for an       *)
(* invoice (process_replenish_balance), the four ways its payment reaches  *)
(* the balance (the "check" button, the Platega webhook, Telegram's        *)
(* successful_payment, RecoveryManager's sweep) and the daily cleanup.     *)
(*                                                                         *)
(* A database session is one action.  What a handler learns from a gateway *)
(* or from an earlier session is kept in its slot, because by the time it  *)
(* is used other handlers may have run.                                    *)
(***************************************************************************)
EXTENDS Integers

CONSTANTS
    Users, NoUser,
    Amounts,       \* kopecks a user may ask for (validate_money_amount)
    Crypto,        \* CryptoPay invoice ids
    Stars,         \* Telegram charge ids of Stars payments
    Platega,       \* Platega transactions already in the payments table
    NoInvoice,
    Gateways,      \* gateway codes the operator has configured and enabled
    Slots,         \* bound: handlers that may be between two awaits
    MaxCrashes,    \* bound: how often the process may die
    FsmExpires     \* the conversation is in Redis, with FSM_TTL

Invoices == Crypto \cup Stars \cup Platega

ASSUME PaymentsAssumption ==
    /\ NoUser \notin Users /\ NoInvoice \notin Invoices
    /\ Amounts \subseteq Nat \ {0}
    /\ Crypto \cap Stars = {} /\ Crypto \cap Platega = {}
    /\ Stars \cap Platega = {}
    /\ MaxCrashes \in Nat
    /\ FsmExpires \in BOOLEAN

VARIABLES
    invoice,    \* the gateway's side: user, amount and state
    request,    \* how far process_replenish_balance got with the invoice
    pay,        \* Payments.status; "none" without a row
    age,        \* of the row: 0, 1 over an hour, 2 over the retention period
    fsm,        \* conversation data: amount_cents and invoice_id
    refused,    \* gateways whose users got errors.something_wrong
    jobs,       \* what a handler read before it calls process_payment_topup
    sweep,      \* recover_pending_payments: copies left, the one looked up
    updates,    \* successful_payment updates Telegram has to deliver
    balance,    \* what top-ups put on User.balance
    credited,   \* what was credited for the invoice
    crashes

convVars == <<request, fsm, refused>>
workVars == <<jobs, sweep, updates>>
vars == <<invoice, pay, age, convVars, workVars, balance, credited, crashes>>

-----------------------------------------------------------------------------
NoData == [amount |-> 0, invoice |-> NoInvoice]
NoJob == [by |-> "none", invoice |-> NoInvoice, amount |-> 0]
AtRest == [todo |-> {}, at |-> NoInvoice, seen |-> "none"]

Code(i) ==
    IF i \in Crypto THEN "cryptopay" ELSE IF i \in Stars THEN "stars"
    ELSE "platega"

\* PaymentRequest.provider: "^(telegram|stars|cryptopay|fiat)$".
AcceptedProviders == {"telegram", "stars", "cryptopay", "fiat"}

\* A Stars invoice is for whole roubles: int(amount_dec).
InvoiceAmount(i, cents) ==
    IF i \in Stars THEN 100 * (cents \div 100) ELSE cents

Issued(u, amount) == [user |-> u, amount |-> amount, state |-> "active"]

\* The table may hold pending Platega rows, whose users have the link and
\* the conversation that goes with it.
Init ==
    /\ \E who \in [Platega -> Users], much \in [Platega -> Amounts] :
         /\ \A i, j \in Platega : who[i] = who[j] => i = j
         /\ invoice = [i \in Invoices |->
              IF i \in Platega THEN Issued(who[i], much[i])
              ELSE [user |-> NoUser, amount |-> 0, state |-> "none"]]
         /\ fsm = [u \in Users |->
              IF \E i \in Platega : who[i] = u
              THEN LET i == CHOOSE i \in Platega : who[i] = u
                   IN  [amount |-> much[i], invoice |-> i]
              ELSE NoData]
    /\ request = [i \in Invoices |-> IF i \in Platega THEN "shown" ELSE "none"]
    /\ pay = [i \in Invoices |-> IF i \in Platega THEN "pending" ELSE "none"]
    /\ age = [i \in Invoices |-> 0]
    /\ refused = {}
    /\ jobs = [s \in Slots |-> NoJob]
    /\ sweep = AtRest
    /\ updates = {}
    /\ balance = [u \in Users |-> 0]
    /\ credited = [i \in Invoices |-> 0]
    /\ crashes = 0

-----------------------------------------------------------------------------
(***************************************************************************)
(* Asking for an invoice                                                   *)
(***************************************************************************)

\* replenish_balance_amount: the data of an earlier invoice stays.
EnterAmount(u, a) ==
    /\ fsm' = [fsm EXCEPT ![u].amount = a]
    /\ UNCHANGED <<invoice, request, pay, age, refused, workVars, balance,
                   credited, crashes>>

\* process_replenish_balance when PaymentRequest rejects the gateway's code.
Refuse(u, code) ==
    /\ fsm[u].amount > 0
    /\ code \notin AcceptedProviders
    /\ refused' = refused \cup {code}
    /\ fsm' = [fsm EXCEPT ![u] = NoData]
    /\ UNCHANGED <<invoice, request, pay, age, workVars, balance, credited,
                   crashes>>

\* CryptoPay creates the invoice; the handler has not recorded it yet.
CreateInvoice(u, i) ==
    /\ i \in Crypto /\ Code(i) \in AcceptedProviders
    /\ invoice[i].state = "none" /\ fsm[u].amount > 0
    /\ invoice' = [invoice EXCEPT ![i] = Issued(u, fsm[u].amount)]
    /\ request' = [request EXCEPT ![i] = "created"]
    /\ UNCHANGED <<pay, age, fsm, refused, workVars, balance, credited,
                   crashes>>

\* send_stars_invoice: Telegram shows the invoice itself, nothing is stored.
SendStarsInvoice(u, i) ==
    /\ i \in Stars /\ Code(i) \in AcceptedProviders
    /\ invoice[i].state = "none" /\ InvoiceAmount(i, fsm[u].amount) > 0
    /\ invoice' = [invoice EXCEPT ![i] =
                     Issued(u, InvoiceAmount(i, fsm[u].amount))]
    /\ request' = [request EXCEPT ![i] = "shown"]
    /\ fsm' = [fsm EXCEPT ![u] = NoData]
    /\ UNCHANGED <<pay, age, refused, workVars, balance, credited, crashes>>

\* create_pending_payment
RecordPending(i) ==
    /\ request[i] = "created"
    /\ request' = [request EXCEPT ![i] = "recorded"]
    /\ pay' = [pay EXCEPT ![i] = "pending"]
    /\ UNCHANGED <<invoice, age, fsm, refused, workVars, balance, credited,
                   crashes>>

\* The conversation keeps the invoice id and the user gets the link.
ShowInvoice(i) ==
    /\ request[i] = "recorded"
    /\ request' = [request EXCEPT ![i] = "shown"]
    /\ fsm' = [fsm EXCEPT ![invoice[i].user].invoice = i]
    /\ UNCHANGED <<invoice, pay, age, refused, workVars, balance, credited,
                   crashes>>

\* An exception after the invoice exists: the conversation is cleared.
FailRequest(i) ==
    /\ request[i] \in {"created", "recorded"}
    /\ request' = [request EXCEPT ![i] = "lost"]
    /\ fsm' = [fsm EXCEPT ![invoice[i].user] = NoData]
    /\ UNCHANGED <<invoice, pay, age, refused, workVars, balance, credited,
                   crashes>>

-----------------------------------------------------------------------------
(***************************************************************************)
(* Crediting: process_payment_topup and process_payment_with_referral      *)
(***************************************************************************)

\* Mutant: the status of the row is not looked at.
TopUpAgain(i, u, amount) ==
    LET got == IF pay[i] = "none" THEN amount ELSE invoice[i].amount
    IN  /\ pay' = [pay EXCEPT ![i] = "succeeded"]
        /\ balance' = [balance EXCEPT ![u] = @ + got]
        /\ credited' = [credited EXCEPT ![i] = got]

\* One session.  A row counts with its own amount; without one a succeeded
\* row is inserted.
TopUp(i, u, amount) ==
    IF pay[i] = "succeeded"
    THEN UNCHANGED <<pay, balance, credited>>
    ELSE LET got == IF pay[i] = "none" THEN amount ELSE invoice[i].amount
         IN  /\ pay' = [pay EXCEPT ![i] = "succeeded"]
             /\ balance' = [balance EXCEPT ![u] = @ + got]
             /\ credited' = [credited EXCEPT ![i] = got]

\* checking_payment: the gateway says paid.  The amount is the gateway's for
\* CryptoPay; for Platega the row's, else what the conversation holds now.
CheckAsk(u, s) ==
    LET i == fsm[u].invoice
        amount == IF i \in Platega /\ pay[i] = "none" THEN fsm[u].amount
                  ELSE invoice[i].amount
    IN  /\ jobs[s] = NoJob
        /\ i # NoInvoice /\ invoice[i].state = "paid"
        /\ amount > 0
        /\ jobs' = [jobs EXCEPT ![s] =
                      [by |-> "check", invoice |-> i, amount |-> amount]]
        /\ UNCHANGED <<invoice, pay, age, convVars, sweep, updates, balance,
                       credited, crashes>>

\* finalize_platega_webhook reads the row; a CONFIRMED callback for which
\* there is none is answered 404.
Webhook(i, s) ==
    /\ jobs[s] = NoJob
    /\ i \in Platega /\ invoice[i].state = "paid"
    /\ pay[i] # "none"
    /\ jobs' = [jobs EXCEPT ![s] =
                  [by |-> "webhook", invoice |-> i,
                   amount |-> invoice[i].amount]]
    /\ UNCHANGED <<invoice, pay, age, convVars, sweep, updates, balance,
                   credited, crashes>>

\* The handler credits; the button ends the conversation unless CryptoPay's
\* payment was credited before.
JobCredit(s) ==
    LET i == jobs[s].invoice
    IN  /\ jobs[s] # NoJob
        /\ TopUp(i, invoice[i].user, jobs[s].amount)
        /\ jobs' = [jobs EXCEPT ![s] = NoJob]
        /\ fsm' = IF jobs[s].by = "check"
                     /\ (i \in Platega \/ pay[i] # "succeeded")
                  THEN [fsm EXCEPT ![invoice[i].user] = NoData] ELSE fsm
        /\ UNCHANGED <<invoice, age, request, refused, sweep, updates,
                       crashes>>

\* payment_error: the session rolled back.
JobError(s) ==
    /\ jobs[s] # NoJob
    /\ jobs' = [jobs EXCEPT ![s] = NoJob]
    /\ UNCHANGED <<invoice, pay, age, convVars, sweep, updates, balance,
                   credited, crashes>>

\* successful_payment_handler; an update that was not confirmed to Telegram
\* before the process died is delivered again.
SuccessfulPayment(i, again) ==
    /\ i \in updates
    /\ TopUp(i, invoice[i].user, invoice[i].amount)
    /\ updates' = IF again THEN updates ELSE updates \ {i}
    /\ UNCHANGED <<invoice, age, convVars, jobs, sweep, crashes>>

\* A middleware drops the update (blocked user, maintenance, rate limit), or
\* crediting fails with payment_error.
DropUpdate(i) ==
    /\ i \in updates
    /\ updates' = updates \ {i}
    /\ UNCHANGED <<invoice, pay, age, convVars, jobs, sweep, balance,
                   credited, crashes>>

-----------------------------------------------------------------------------
(***************************************************************************)
(* RecoveryManager and CleanupManager                                      *)
(***************************************************************************)

\* Mutant: created_at is compared with the cutoff the wrong way round.
SweepFresh ==
    /\ sweep = AtRest
    /\ sweep' = [AtRest EXCEPT !.todo =
                   {i \in Crypto \cup Platega : pay[i] = "pending" /\ age[i] = 0}]
    /\ UNCHANGED <<invoice, pay, age, convVars, jobs, updates, balance,
                   credited, crashes>>

\* recover_pending_payments copies the rows and closes its session.
RecoverSweep ==
    /\ sweep = AtRest
    /\ sweep' = [AtRest EXCEPT !.todo =
                   {i \in Crypto \cup Platega : pay[i] = "pending" /\ age[i] > 0}]
    /\ UNCHANGED <<invoice, pay, age, convVars, jobs, updates, balance,
                   credited, crashes>>

\* Mutant: an active invoice counts as failed.
AskGivesUp(i) ==
    /\ i \in sweep.todo \cap Crypto /\ sweep.at = NoInvoice
    /\ sweep' = [todo |-> sweep.todo \ {i}, at |-> i,
                 seen |-> IF invoice[i].state = "paid" THEN "paid" ELSE "expired"]
    /\ UNCHANGED <<invoice, pay, age, convVars, jobs, updates, balance,
                   credited, crashes>>

\* _check_and_process_payment: CryptoPay answers.
RecoverAsk(i) ==
    /\ i \in sweep.todo \cap Crypto /\ sweep.at = NoInvoice
    /\ invoice[i].state \in {"paid", "expired"}
    /\ sweep' = [todo |-> sweep.todo \ {i}, at |-> i,
                 seen |-> invoice[i].state]
    /\ UNCHANGED <<invoice, pay, age, convVars, jobs, updates, balance,
                   credited, crashes>>

\* Nothing is done about the copy: the invoice is still active, CryptoPay is
\* not configured or does not answer.  The Platega branch always ends here:
\* it uses Database, which only other methods import.
RecoverSkip(i) ==
    /\ i \in sweep.todo /\ sweep.at = NoInvoice
    /\ sweep' = [sweep EXCEPT !.todo = @ \ {i}]
    /\ UNCHANGED <<invoice, pay, age, convVars, jobs, updates, balance,
                   credited, crashes>>

\* The invoice was paid.
RecoverCredit ==
    LET i == sweep.at
    IN  /\ i # NoInvoice /\ sweep.seen = "paid"
        /\ TopUp(i, invoice[i].user, invoice[i].amount)
        /\ sweep' = [sweep EXCEPT !.at = NoInvoice, !.seen = "none"]
        /\ UNCHANGED <<invoice, age, convVars, jobs, updates, crashes>>

\* Crediting failed with payment_error.
RecoverError ==
    /\ sweep.at # NoInvoice /\ sweep.seen = "paid"
    /\ sweep' = [sweep EXCEPT !.at = NoInvoice, !.seen = "none"]
    /\ UNCHANGED <<invoice, pay, age, convVars, jobs, updates, balance,
                   credited, crashes>>

\* Mutant: the gateway's word for it is stored.
MarkExpired ==
    LET i == sweep.at
    IN  /\ i # NoInvoice /\ sweep.seen = "expired"
        /\ pay' = [pay EXCEPT ![i] = IF @ = "none" THEN "none" ELSE "expired"]
        /\ sweep' = [sweep EXCEPT !.at = NoInvoice, !.seen = "none"]
        /\ UNCHANGED <<invoice, age, convVars, jobs, updates, balance,
                       credited, crashes>>

\* _mark_payment_failed: an UPDATE by id that does not look at the status.
MarkFailed ==
    LET i == sweep.at
    IN  /\ i # NoInvoice /\ sweep.seen = "expired"
        /\ pay' = [pay EXCEPT ![i] = IF @ = "none" THEN "none" ELSE "failed"]
        /\ sweep' = [sweep EXCEPT !.at = NoInvoice, !.seen = "none"]
        /\ UNCHANGED <<invoice, age, convVars, jobs, updates, balance,
                       credited, crashes>>

Expendable(i) == pay[i] \in {"pending", "failed"} /\ age[i] = 2

\* daily_cleanup
Cleanup ==
    /\ \E i \in Invoices : Expendable(i)
    /\ pay' = [i \in Invoices |-> IF Expendable(i) THEN "none" ELSE pay[i]]
    /\ UNCHANGED <<invoice, age, convVars, workVars, balance, credited,
                   crashes>>

-----------------------------------------------------------------------------
(***************************************************************************)
(* The surroundings                                                        *)
(***************************************************************************)

\* The user pays an invoice that was shown; the gateway takes the money.
Pay(i) ==
    /\ request[i] = "shown" /\ invoice[i].state = "active"
    /\ invoice' = [invoice EXCEPT ![i].state = "paid"]
    /\ updates' = IF i \in Stars THEN updates \cup {i} ELSE updates
    /\ UNCHANGED <<pay, age, convVars, jobs, sweep, balance, credited,
                   crashes>>

\* PAYMENT_TIME passes and the gateway gives the invoice up, for good.
Expire(i) ==
    /\ invoice[i].state = "active"
    /\ invoice' = [invoice EXCEPT ![i].state = "expired"]
    /\ UNCHANGED <<pay, age, convVars, workVars, balance, credited, crashes>>

\* Time passes: an hour, then PAYMENTS_RETENTION_DAYS.  The latter outlasts
\* an invoice, a conversation kept for FSM_TTL, and CryptoPay being down.
Age(i) ==
    /\ pay[i] \in {"pending", "failed"} /\ age[i] < 2
    /\ age[i] = 1 =>
         /\ invoice[i].state # "active"
         /\ FsmExpires => \A u \in Users : fsm[u].invoice # i
         /\ ~(i \in Crypto /\ invoice[i].state = "paid")
    /\ age' = [age EXCEPT ![i] = @ + 1]
    /\ UNCHANGED <<invoice, pay, convVars, workVars, balance, credited,
                   crashes>>

\* FSM_TTL passes without activity.
ExpireConversation(u) ==
    /\ FsmExpires /\ fsm[u] # NoData
    /\ fsm' = [fsm EXCEPT ![u] = NoData]
    /\ UNCHANGED <<invoice, request, pay, age, refused, workVars, balance,
                   credited, crashes>>

\* The process dies: handlers and the sweep stop where they are.
Crash ==
    /\ crashes < MaxCrashes
    /\ crashes' = crashes + 1
    /\ request' = [i \in Invoices |->
                     IF request[i] \in {"created", "recorded"} THEN "lost"
                     ELSE request[i]]
    /\ fsm' = IF FsmExpires THEN fsm ELSE [u \in Users |-> NoData]
    /\ jobs' = [s \in Slots |-> NoJob]
    /\ sweep' = AtRest
    /\ UNCHANGED <<invoice, pay, age, refused, updates, balance, credited>>

-----------------------------------------------------------------------------
RecoverStep ==
    \/ RecoverSweep \/ RecoverCredit \/ RecoverError \/ MarkFailed
    \/ \E i \in Invoices : RecoverAsk(i) \/ RecoverSkip(i)

Conversation ==
    \/ \E u \in Users :
         \/ \E a \in Amounts : EnterAmount(u, a)
         \/ \E code \in Gateways : Refuse(u, code)
         \/ \E i \in Invoices : CreateInvoice(u, i) \/ SendStarsInvoice(u, i)
         \/ \E s \in Slots : CheckAsk(u, s)
         \/ ExpireConversation(u)
    \/ \E i \in Invoices : RecordPending(i) \/ ShowInvoice(i) \/ FailRequest(i)

Next ==
    \/ Conversation
    \/ RecoverStep
    \/ \E s \in Slots : JobCredit(s) \/ JobError(s)
    \/ \E i \in Invoices :
         \/ \E s \in Slots : Webhook(i, s)
         \/ \E again \in BOOLEAN : SuccessfulPayment(i, again)
         \/ DropUpdate(i) \/ Pay(i) \/ Expire(i) \/ Age(i)
    \/ Cleanup
    \/ Crash

Spec == Init /\ [][Next]_vars

\* _run_periodically starts a sweep every five minutes for ever, a row gets
\* an hour old, and CryptoPay and the database do not fail every time.
Fairness ==
    /\ WF_vars(RecoverStep)
    /\ SF_vars(RecoverCredit)
    /\ \A i \in Invoices : SF_vars(RecoverAsk(i)) /\ WF_vars(age[i] = 0 /\ Age(i))

FairSpec == Spec /\ Fairness

-----------------------------------------------------------------------------
(***************************************************************************)
(* Properties                                                              *)
(***************************************************************************)

\* Every variable stays in its type.
TypeOK ==
    /\ invoice \in [Invoices -> [user : Users \cup {NoUser}, amount : Nat,
                       state : {"none", "active", "paid", "expired"}]]
    /\ request \in [Invoices ->
                      {"none", "created", "recorded", "shown", "lost"}]
    /\ pay \in [Invoices -> {"none", "pending", "failed", "succeeded"}]
    /\ age \in [Invoices -> 0..2]
    /\ fsm \in [Users -> [amount : Nat, invoice : Invoices \cup {NoInvoice}]]
    /\ refused \subseteq Gateways
    /\ jobs \in [Slots -> [by : {"none", "check", "webhook"},
                   invoice : Invoices \cup {NoInvoice}, amount : Nat]]
    /\ sweep \in [todo : SUBSET (Crypto \cup Platega),
                  at : Invoices \cup {NoInvoice},
                  seen : {"none", "paid", "expired"}]
    /\ updates \subseteq Stars
    /\ balance \in [Users -> Nat]
    /\ credited \in [Invoices -> Nat]
    /\ crashes \in 0..MaxCrashes

\* The row tells the truth: it is succeeded exactly when the balance has the
\* money, whatever copy, webhook or button press acted on it late.  Only
\* what the gateway took was credited, and just that amount.
CreditedAsPaid ==
    \A i \in Invoices :
      /\ pay[i] = "succeeded" <=> credited[i] > 0
      /\ credited[i] > 0 => /\ invoice[i].state = "paid"
                            /\ credited[i] = invoice[i].amount
      /\ pay[i] = "failed" => invoice[i].state = "expired"

\* The steps of all handlers together credit each payment at most once.
Ledger == INSTANCE TopUps WITH
    bill <- [i \in Invoices |-> [user |-> invoice[i].user,
                                 amount |-> invoice[i].amount]],
    paid <- {i \in Invoices : invoice[i].state = "paid"},
    credited <- {i \in Invoices : pay[i] = "succeeded"}

\* Payments implements TopUps.
CreditsOnce == Ledger!TopUpsSpec

\* RecoveryManager gets every paid CryptoPay invoice onto the balance, even
\* when nobody presses the button.
CryptoPaidIsCredited ==
    \A i \in Crypto : invoice[i].state = "paid" ~> credited[i] > 0

\* The same of Platega, should its webhook be lost.
PlategaPaidIsCredited ==
    \A i \in Platega : invoice[i].state = "paid" ~> credited[i] > 0

\* A user who chose a configured and enabled gateway gets an invoice.
ConfiguredGatewaysServe == refused = {}
=============================================================================
