--------------------------- MODULE PaymentsProofs ---------------------------
(***************************************************************************)
(* Proofs about Payments: its invariants hold, and it implements TopUps,   *)
(* for any number of users, invoices, handlers and crashes.  The           *)
(* conversation is in Redis (FsmExpires): without its TTL a conversation   *)
(* may outlive the row of its Platega transaction.                         *)
(***************************************************************************)
EXTENDS Payments, TLAPS

-----------------------------------------------------------------------------
(***************************************************************************)
(* The inductive invariant                                                 *)
(***************************************************************************)

\* An invoice exists once it was requested, and is paid only if shown; until
\* create_pending_payment there is no row.
InvoiceOK(i) ==
    /\ invoice[i].state # "none" =>
         invoice[i].user \in Users /\ invoice[i].amount > 0
    /\ invoice[i].state = "none" => invoice[i].user = NoUser
    /\ request[i] = "none" <=> invoice[i].state = "none"
    /\ invoice[i].state = "paid" => request[i] = "shown"
    /\ request[i] \in {"none", "created"} => pay[i] = "none"
InvoicesOK == \A i \in Invoices : InvoiceOK(i)

\* What a handler read of a paid invoice stays true until it acts on it.
JobsOK ==
    \A s \in Slots :
      jobs[s] # NoJob =>
        /\ jobs[s].invoice \in Invoices
        /\ invoice[jobs[s].invoice].state = "paid"
        /\ jobs[s].amount = invoice[jobs[s].invoice].amount

\* So does what the sweep learnt.
SweepOK ==
    sweep.at # NoInvoice =>
      /\ sweep.at \in Crypto
      /\ sweep.seen \in {"paid", "expired"}
      /\ sweep.seen = invoice[sweep.at].state

\* Telegram reports paid invoices only.
UpdatesOK == \A i \in updates : invoice[i].state = "paid"

\* A Platega row outlives the conversation about its transaction.
ConversationsOK ==
    \A i \in Platega :
      /\ request[i] = "shown"
      /\ pay[i] = "none" => age[i] = 2
      /\ age[i] = 2 => \A u \in Users : fsm[u].invoice # i

IInv ==
    /\ TypeOK
    /\ InvoicesOK
    /\ JobsOK
    /\ SweepOK
    /\ UpdatesOK
    /\ ConversationsOK
    /\ CreditedAsPaid

-----------------------------------------------------------------------------
LEMMA AmountPositive == \A a \in Amounts : a \in Nat /\ a > 0
    BY PaymentsAssumption

LEMMA InitIInv == Init => IInv
<1> SUFFICES ASSUME Init PROVE IInv
    OBVIOUS
<1> USE PaymentsAssumption DEF Invoices
<1>1. PICK who \in [Platega -> Users], much \in [Platega -> Amounts] :
         /\ \A i, j \in Platega : who[i] = who[j] => i = j
         /\ invoice = [i \in Invoices |->
              IF i \in Platega THEN Issued(who[i], much[i])
              ELSE [user |-> NoUser, amount |-> 0, state |-> "none"]]
         /\ fsm = [u \in Users |->
              IF \E i \in Platega : who[i] = u
              THEN LET i == CHOOSE i \in Platega : who[i] = u
                   IN  [amount |-> much[i], invoice |-> i]
              ELSE NoData]
    BY DEF Init
<1>2. \A i \in Invoices :
        /\ i \in Platega => invoice[i] = [user |-> who[i], amount |-> much[i],
                                          state |-> "active"]
        /\ i \notin Platega => invoice[i] = [user |-> NoUser, amount |-> 0,
                                             state |-> "none"]
    BY <1>1 DEF Issued
<1>3. fsm \in [Users -> [amount : Nat, invoice : Invoices \cup {NoInvoice}]]
    BY <1>1 DEF NoData
<1>4. TypeOK
  <2>1. invoice \in [Invoices -> [user : Users \cup {NoUser}, amount : Nat,
                       state : {"none", "active", "paid", "expired"}]]
      BY <1>1 DEF Issued
  <2> QED
      BY <2>1, <1>3 DEF Init, TypeOK, NoJob, AtRest
<1>5. InvoicesOK
  <2> SUFFICES ASSUME NEW i \in Invoices PROVE InvoiceOK(i)
      BY DEF InvoicesOK
  <2>1. CASE i \in Platega
    <3>1. /\ invoice[i].state = "active" /\ invoice[i].user \in Users
          /\ invoice[i].amount > 0
      <4>1. who[i] \in Users /\ much[i] \in Amounts
          BY <2>1
      <4>2. invoice[i] = [user |-> who[i], amount |-> much[i],
                          state |-> "active"]
          BY <1>2, <2>1
      <4>3. much[i] > 0
          BY <4>1, AmountPositive, Zenon
      <4> QED
          BY <4>1, <4>2, <4>3
    <3> QED
        BY <2>1, <3>1 DEF Init, InvoiceOK
  <2>2. CASE i \notin Platega
      BY <1>2, <2>2 DEF Init, InvoiceOK
  <2> QED
      BY <2>1, <2>2
<1>6. JobsOK /\ SweepOK /\ UpdatesOK /\ ConversationsOK
    BY DEF Init, JobsOK, SweepOK, UpdatesOK, ConversationsOK, AtRest
<1>7. CreditedAsPaid
    BY <1>2 DEF Init, CreditedAsPaid
<1> QED
    BY <1>4, <1>5, <1>6, <1>7 DEF IInv

LEMMA EnterAmountIInv ==
    ASSUME IInv, NEW u \in Users, NEW a \in Amounts, EnterAmount(u, a)
    PROVE  IInv'
<1> USE PaymentsAssumption, AmountPositive DEF Invoices, IInv, EnterAmount,
        workVars
<1>1. TypeOK'
    BY DEF TypeOK, InvoicesOK, InvoiceOK, JobsOK, SweepOK
<1>2. ConversationsOK'
    BY DEF TypeOK, ConversationsOK
<1>3. (InvoicesOK /\ JobsOK /\ SweepOK /\ UpdatesOK /\ CreditedAsPaid)'
    BY DEF TypeOK, InvoicesOK, InvoiceOK, JobsOK, SweepOK, UpdatesOK,
           CreditedAsPaid
<1> QED
    BY <1>1, <1>2, <1>3

LEMMA RefuseIInv ==
    ASSUME IInv, NEW u \in Users, NEW code \in Gateways, Refuse(u, code)
    PROVE  IInv'
<1> USE PaymentsAssumption, AmountPositive DEF Invoices, IInv, Refuse,
        workVars, NoData
<1>1. TypeOK'
    BY DEF TypeOK, InvoicesOK, InvoiceOK, JobsOK, SweepOK
<1>2. ConversationsOK'
    BY DEF TypeOK, ConversationsOK
<1>3. (InvoicesOK /\ JobsOK /\ SweepOK /\ UpdatesOK /\ CreditedAsPaid)'
    BY DEF TypeOK, InvoicesOK, InvoiceOK, JobsOK, SweepOK, UpdatesOK,
           CreditedAsPaid
<1> QED
    BY <1>1, <1>2, <1>3

LEMMA CreateInvoiceIInv ==
    ASSUME IInv, NEW u \in Users, NEW i \in Invoices, CreateInvoice(u, i)
    PROVE  IInv'
<1> USE PaymentsAssumption, AmountPositive DEF Invoices, IInv, CreateInvoice,
        workVars, Issued
<1>1. TypeOK'
    BY DEF TypeOK, InvoicesOK, InvoiceOK, JobsOK, SweepOK
<1>2. InvoicesOK'
    BY DEF TypeOK, InvoicesOK, InvoiceOK
<1>3. CreditedAsPaid'
    BY DEF TypeOK, CreditedAsPaid, InvoicesOK, InvoiceOK
<1>4. (JobsOK /\ SweepOK /\ UpdatesOK /\ ConversationsOK)'
    BY DEF TypeOK, JobsOK, SweepOK, UpdatesOK, ConversationsOK
<1> QED
    BY <1>1, <1>2, <1>3, <1>4

LEMMA SendStarsInvoiceIInv ==
    ASSUME IInv, NEW u \in Users, NEW i \in Invoices, SendStarsInvoice(u, i)
    PROVE  IInv'
<1> USE PaymentsAssumption, AmountPositive DEF Invoices, IInv,
        SendStarsInvoice, workVars, Issued, InvoiceAmount, NoData
<1>1. TypeOK'
    BY DEF TypeOK, InvoicesOK, InvoiceOK, JobsOK, SweepOK
<1>2. InvoicesOK'
    BY DEF TypeOK, InvoicesOK, InvoiceOK
<1>3. ConversationsOK'
    BY DEF TypeOK, ConversationsOK
<1>4. CreditedAsPaid'
    BY DEF TypeOK, CreditedAsPaid, InvoicesOK, InvoiceOK
<1>5. (JobsOK /\ SweepOK /\ UpdatesOK)'
    BY DEF TypeOK, JobsOK, SweepOK, UpdatesOK
<1> QED
    BY <1>1, <1>2, <1>3, <1>4, <1>5

LEMMA RecordPendingIInv ==
    ASSUME IInv, NEW i \in Invoices, RecordPending(i)
    PROVE  IInv'
<1> USE PaymentsAssumption, AmountPositive DEF Invoices, IInv, RecordPending,
        workVars
<1>1. TypeOK'
    BY DEF TypeOK, InvoicesOK, InvoiceOK, JobsOK, SweepOK
<1>2. InvoicesOK'
    BY DEF TypeOK, InvoicesOK, InvoiceOK
<1>3. ConversationsOK'
    BY DEF TypeOK, ConversationsOK
<1>4. CreditedAsPaid'
    BY DEF TypeOK, CreditedAsPaid, InvoicesOK, InvoiceOK
<1>5. (JobsOK /\ SweepOK /\ UpdatesOK)'
    BY DEF TypeOK, JobsOK, SweepOK, UpdatesOK
<1> QED
    BY <1>1, <1>2, <1>3, <1>4, <1>5

LEMMA ShowInvoiceIInv ==
    ASSUME IInv, NEW i \in Invoices, ShowInvoice(i)
    PROVE  IInv'
<1> USE PaymentsAssumption, AmountPositive DEF Invoices, IInv, ShowInvoice,
        workVars
<1>1. TypeOK'
    BY DEF TypeOK, InvoicesOK, InvoiceOK, JobsOK, SweepOK
<1>2. InvoicesOK'
    BY DEF TypeOK, InvoicesOK, InvoiceOK
<1>3. ConversationsOK'
    BY DEF TypeOK, ConversationsOK
<1>4. (JobsOK /\ SweepOK /\ UpdatesOK /\ CreditedAsPaid)'
    BY DEF TypeOK, JobsOK, SweepOK, UpdatesOK, CreditedAsPaid
<1> QED
    BY <1>1, <1>2, <1>3, <1>4

LEMMA FailRequestIInv ==
    ASSUME IInv, NEW i \in Invoices, FailRequest(i)
    PROVE  IInv'
<1> USE PaymentsAssumption, AmountPositive DEF Invoices, IInv, FailRequest,
        workVars, NoData
<1>1. TypeOK'
    BY DEF TypeOK, InvoicesOK, InvoiceOK, JobsOK, SweepOK
<1>2. InvoicesOK'
    BY DEF TypeOK, InvoicesOK, InvoiceOK
<1>3. ConversationsOK'
    BY DEF TypeOK, ConversationsOK
<1>4. (JobsOK /\ SweepOK /\ UpdatesOK /\ CreditedAsPaid)'
    BY DEF TypeOK, JobsOK, SweepOK, UpdatesOK, CreditedAsPaid
<1> QED
    BY <1>1, <1>2, <1>3, <1>4

\* The row, or for CryptoPay the gateway, still has the amount.
LEMMA CheckAskIInv ==
    ASSUME IInv, FsmExpires, NEW u \in Users, NEW s \in Slots, CheckAsk(u, s)
    PROVE  IInv'
<1> USE PaymentsAssumption, AmountPositive DEF Invoices, IInv, CheckAsk,
        convVars, NoJob
<1>1. TypeOK'
    BY DEF TypeOK, InvoicesOK, InvoiceOK, JobsOK, SweepOK
<1>2. JobsOK'
    BY DEF TypeOK, JobsOK, ConversationsOK
<1>3. (InvoicesOK /\ SweepOK /\ UpdatesOK /\ ConversationsOK /\ CreditedAsPaid)'
    BY DEF TypeOK, InvoicesOK, InvoiceOK, SweepOK, UpdatesOK,
           ConversationsOK, CreditedAsPaid
<1> QED
    BY <1>1, <1>2, <1>3

LEMMA WebhookIInv ==
    ASSUME IInv, NEW i \in Invoices, NEW s \in Slots, Webhook(i, s)
    PROVE  IInv'
<1> USE PaymentsAssumption, AmountPositive DEF Invoices, IInv, Webhook,
        convVars, NoJob
<1>1. TypeOK'
    BY DEF TypeOK, InvoicesOK, InvoiceOK, JobsOK, SweepOK
<1>2. JobsOK'
    BY DEF TypeOK, JobsOK
<1>3. (InvoicesOK /\ SweepOK /\ UpdatesOK /\ ConversationsOK /\ CreditedAsPaid)'
    BY DEF TypeOK, InvoicesOK, InvoiceOK, SweepOK, UpdatesOK,
           ConversationsOK, CreditedAsPaid
<1> QED
    BY <1>1, <1>2, <1>3

LEMMA JobErrorIInv ==
    ASSUME IInv, NEW s \in Slots, JobError(s)
    PROVE  IInv'
<1> USE PaymentsAssumption, AmountPositive DEF Invoices, IInv, JobError,
        convVars, NoJob
<1>1. TypeOK'
    BY DEF TypeOK, InvoicesOK, InvoiceOK, JobsOK, SweepOK
<1>2. JobsOK'
    BY DEF TypeOK, JobsOK
<1>3. (InvoicesOK /\ SweepOK /\ UpdatesOK /\ ConversationsOK /\ CreditedAsPaid)'
    BY DEF TypeOK, InvoicesOK, InvoiceOK, SweepOK, UpdatesOK,
           ConversationsOK, CreditedAsPaid
<1> QED
    BY <1>1, <1>2, <1>3

LEMMA DropUpdateIInv ==
    ASSUME IInv, NEW i \in Invoices, DropUpdate(i)
    PROVE  IInv'
<1> USE PaymentsAssumption, AmountPositive DEF Invoices, IInv, DropUpdate,
        convVars
<1>1. TypeOK'
    BY DEF TypeOK, InvoicesOK, InvoiceOK, JobsOK, SweepOK
<1>2. UpdatesOK'
    BY DEF TypeOK, UpdatesOK
<1>3. (InvoicesOK /\ JobsOK /\ SweepOK /\ ConversationsOK /\ CreditedAsPaid)'
    BY DEF TypeOK, InvoicesOK, InvoiceOK, JobsOK, SweepOK, ConversationsOK,
           CreditedAsPaid
<1> QED
    BY <1>1, <1>2, <1>3

LEMMA RecoverSweepIInv ==
    ASSUME IInv, RecoverSweep
    PROVE  IInv'
<1> USE PaymentsAssumption, AmountPositive DEF Invoices, IInv, RecoverSweep,
        convVars, AtRest
<1>1. TypeOK'
    BY DEF TypeOK, InvoicesOK, InvoiceOK, JobsOK, SweepOK
<1>2. SweepOK'
    BY DEF TypeOK, SweepOK
<1>3. (InvoicesOK /\ JobsOK /\ UpdatesOK /\ ConversationsOK /\ CreditedAsPaid)'
    BY DEF TypeOK, InvoicesOK, InvoiceOK, JobsOK, UpdatesOK, ConversationsOK,
           CreditedAsPaid
<1> QED
    BY <1>1, <1>2, <1>3

LEMMA RecoverAskIInv ==
    ASSUME IInv, NEW i \in Invoices, RecoverAsk(i)
    PROVE  IInv'
<1> USE PaymentsAssumption, AmountPositive DEF Invoices, IInv, RecoverAsk,
        convVars
<1>1. TypeOK'
    BY DEF TypeOK, InvoicesOK, InvoiceOK, JobsOK, SweepOK
<1>2. SweepOK'
    BY DEF TypeOK, SweepOK
<1>3. (InvoicesOK /\ JobsOK /\ UpdatesOK /\ ConversationsOK /\ CreditedAsPaid)'
    BY DEF TypeOK, InvoicesOK, InvoiceOK, JobsOK, UpdatesOK, ConversationsOK,
           CreditedAsPaid
<1> QED
    BY <1>1, <1>2, <1>3

LEMMA RecoverSkipIInv ==
    ASSUME IInv, NEW i \in Invoices, RecoverSkip(i)
    PROVE  IInv'
<1> USE PaymentsAssumption, AmountPositive DEF Invoices, IInv, RecoverSkip,
        convVars
<1>1. TypeOK'
    BY DEF TypeOK, InvoicesOK, InvoiceOK, JobsOK, SweepOK
<1>2. SweepOK'
    BY DEF TypeOK, SweepOK
<1>3. (InvoicesOK /\ JobsOK /\ UpdatesOK /\ ConversationsOK /\ CreditedAsPaid)'
    BY DEF TypeOK, InvoicesOK, InvoiceOK, JobsOK, UpdatesOK, ConversationsOK,
           CreditedAsPaid
<1> QED
    BY <1>1, <1>2, <1>3

LEMMA RecoverErrorIInv ==
    ASSUME IInv, RecoverError
    PROVE  IInv'
<1> USE PaymentsAssumption, AmountPositive DEF Invoices, IInv, RecoverError,
        convVars
<1>1. TypeOK'
    BY DEF TypeOK, InvoicesOK, InvoiceOK, JobsOK, SweepOK
<1>2. SweepOK'
    BY DEF TypeOK, SweepOK
<1>3. (InvoicesOK /\ JobsOK /\ UpdatesOK /\ ConversationsOK /\ CreditedAsPaid)'
    BY DEF TypeOK, InvoicesOK, InvoiceOK, JobsOK, UpdatesOK, ConversationsOK,
           CreditedAsPaid
<1> QED
    BY <1>1, <1>2, <1>3

\* An invoice CryptoPay gave up was never paid, so the row is not succeeded.
LEMMA MarkFailedIInv ==
    ASSUME IInv, MarkFailed
    PROVE  IInv'
<1> USE PaymentsAssumption, AmountPositive DEF Invoices, IInv, MarkFailed,
        convVars
<1>1. TypeOK'
    BY DEF TypeOK, InvoicesOK, InvoiceOK, JobsOK, SweepOK
<1>2. SweepOK'
    BY DEF TypeOK, SweepOK
<1>3. CreditedAsPaid'
    BY DEF TypeOK, CreditedAsPaid, SweepOK
<1>4. (InvoicesOK /\ JobsOK /\ UpdatesOK /\ ConversationsOK)'
    BY DEF TypeOK, InvoicesOK, InvoiceOK, JobsOK, UpdatesOK, ConversationsOK
<1> QED
    BY <1>1, <1>2, <1>3, <1>4

LEMMA CleanupIInv ==
    ASSUME IInv, Cleanup
    PROVE  IInv'
<1> USE PaymentsAssumption, AmountPositive DEF Invoices, IInv, Cleanup,
        convVars, workVars, Expendable
<1>1. TypeOK'
    BY DEF TypeOK, InvoicesOK, InvoiceOK, JobsOK, SweepOK
<1>2. InvoicesOK'
    BY DEF TypeOK, InvoicesOK, InvoiceOK
<1>3. ConversationsOK'
    BY DEF TypeOK, ConversationsOK
<1>4. CreditedAsPaid'
    BY DEF TypeOK, CreditedAsPaid
<1>5. (JobsOK /\ SweepOK /\ UpdatesOK)'
    BY DEF TypeOK, JobsOK, SweepOK, UpdatesOK
<1> QED
    BY <1>1, <1>2, <1>3, <1>4, <1>5

LEMMA PayIInv ==
    ASSUME IInv, NEW i \in Invoices, Pay(i)
    PROVE  IInv'
<1> USE PaymentsAssumption, AmountPositive DEF Invoices, IInv, Pay, convVars
<1>1. TypeOK'
    BY DEF TypeOK, InvoicesOK, InvoiceOK, JobsOK, SweepOK
<1>2. InvoicesOK'
    BY DEF TypeOK, InvoicesOK, InvoiceOK
<1>3. SweepOK'
    BY DEF TypeOK, SweepOK
<1>4. UpdatesOK'
    BY DEF TypeOK, UpdatesOK
<1>5. CreditedAsPaid'
    BY DEF TypeOK, CreditedAsPaid
<1>6. (JobsOK /\ ConversationsOK)'
    BY DEF TypeOK, JobsOK, ConversationsOK
<1> QED
    BY <1>1, <1>2, <1>3, <1>4, <1>5, <1>6

LEMMA ExpireIInv ==
    ASSUME IInv, NEW i \in Invoices, Expire(i)
    PROVE  IInv'
<1> USE PaymentsAssumption, AmountPositive DEF Invoices, IInv, Expire,
        convVars, workVars
<1>1. TypeOK'
    BY DEF TypeOK, InvoicesOK, InvoiceOK, JobsOK, SweepOK
<1>2. InvoicesOK'
    BY DEF TypeOK, InvoicesOK, InvoiceOK
<1>3. SweepOK'
    BY DEF TypeOK, SweepOK
<1>4. (JobsOK /\ UpdatesOK /\ ConversationsOK /\ CreditedAsPaid)'
    BY DEF TypeOK, JobsOK, UpdatesOK, ConversationsOK, CreditedAsPaid
<1> QED
    BY <1>1, <1>2, <1>3, <1>4

LEMMA AgeIInv ==
    ASSUME IInv, FsmExpires, NEW i \in Invoices, Age(i)
    PROVE  IInv'
<1> USE PaymentsAssumption, AmountPositive DEF Invoices, IInv, Age, convVars,
        workVars
<1>1. TypeOK'
    BY DEF TypeOK, InvoicesOK, InvoiceOK, JobsOK, SweepOK
<1>2. ConversationsOK'
    BY DEF TypeOK, ConversationsOK
<1>3. (InvoicesOK /\ JobsOK /\ SweepOK /\ UpdatesOK /\ CreditedAsPaid)'
    BY DEF TypeOK, InvoicesOK, InvoiceOK, JobsOK, SweepOK, UpdatesOK,
           CreditedAsPaid
<1> QED
    BY <1>1, <1>2, <1>3

LEMMA ExpireConversationIInv ==
    ASSUME IInv, NEW u \in Users, ExpireConversation(u)
    PROVE  IInv'
<1> USE PaymentsAssumption, AmountPositive DEF Invoices, IInv,
        ExpireConversation, workVars, NoData
<1>1. TypeOK'
    BY DEF TypeOK, InvoicesOK, InvoiceOK, JobsOK, SweepOK
<1>2. ConversationsOK'
    BY DEF TypeOK, ConversationsOK
<1>3. (InvoicesOK /\ JobsOK /\ SweepOK /\ UpdatesOK /\ CreditedAsPaid)'
    BY DEF TypeOK, InvoicesOK, InvoiceOK, JobsOK, SweepOK, UpdatesOK,
           CreditedAsPaid
<1> QED
    BY <1>1, <1>2, <1>3

LEMMA CrashIInv ==
    ASSUME IInv, Crash
    PROVE  IInv'
<1> USE PaymentsAssumption, AmountPositive DEF Invoices, IInv, Crash, NoData,
        NoJob, AtRest
<1>1. TypeOK'
    BY DEF TypeOK, InvoicesOK, InvoiceOK, JobsOK, SweepOK
<1>2. InvoicesOK'
    BY DEF TypeOK, InvoicesOK, InvoiceOK
<1>3. JobsOK'
    BY DEF TypeOK, JobsOK
<1>4. SweepOK'
    BY DEF TypeOK, SweepOK
<1>5. ConversationsOK'
    BY DEF TypeOK, ConversationsOK
<1>6. (UpdatesOK /\ CreditedAsPaid)'
    BY DEF TypeOK, UpdatesOK, CreditedAsPaid
<1> QED
    BY <1>1, <1>2, <1>3, <1>4, <1>5, <1>6

-----------------------------------------------------------------------------
(***************************************************************************)
(* Crediting                                                               *)
(***************************************************************************)

\* process_payment_with_referral, called for a paid invoice with the amount
\* it is for, keeps what the row says true.
LEMMA TopUpKeeps ==
    ASSUME IInv, NEW i \in Invoices, NEW amount,
           invoice[i].state = "paid", amount = invoice[i].amount,
           TopUp(i, invoice[i].user, amount),
           UNCHANGED <<invoice, request, age>>
    PROVE  /\ pay' \in [Invoices -> {"none", "pending", "failed", "succeeded"}]
           /\ balance' \in [Users -> Nat]
           /\ credited' \in [Invoices -> Nat]
           /\ InvoicesOK'
           /\ CreditedAsPaid'
           /\ \A j \in Invoices : pay'[j] = "none" => pay[j] = "none"
<1>1. /\ invoice[i].amount \in Nat /\ invoice[i].amount > 0
      /\ invoice[i].user \in Users /\ request[i] = "shown"
    BY DEF IInv, TypeOK, InvoicesOK, InvoiceOK
<1>2. CASE pay[i] = "succeeded"
    BY <1>2 DEF TopUp, IInv, TypeOK, InvoicesOK, InvoiceOK, CreditedAsPaid
<1>3. CASE pay[i] # "succeeded"
  <2>1. /\ pay' = [pay EXCEPT ![i] = "succeeded"]
        /\ balance' = [balance EXCEPT ![invoice[i].user]
                                        = @ + invoice[i].amount]
        /\ credited' = [credited EXCEPT ![i] = invoice[i].amount]
      BY <1>3 DEF TopUp
  <2>2. balance' \in [Users -> Nat]
      BY <1>1, <2>1 DEF IInv, TypeOK
  <2>3. InvoicesOK'
      BY <1>1, <2>1 DEF IInv, TypeOK, InvoicesOK, InvoiceOK
  <2>4. CreditedAsPaid'
      BY <1>1, <2>1 DEF IInv, TypeOK, CreditedAsPaid
  <2> QED
      BY <1>1, <2>1, <2>2, <2>3, <2>4 DEF IInv, TypeOK
<1> QED
    BY <1>2, <1>3

LEMMA JobCreditIInv ==
    ASSUME IInv, NEW s \in Slots, JobCredit(s)
    PROVE  IInv'
<1> DEFINE i == jobs[s].invoice
<1>1. /\ i \in Invoices /\ invoice[i].state = "paid"
      /\ jobs[s].amount = invoice[i].amount
      /\ TopUp(i, invoice[i].user, jobs[s].amount)
      /\ UNCHANGED <<invoice, request, age>>
    BY DEF JobCredit, IInv, JobsOK
<1>2. /\ pay' \in [Invoices -> {"none", "pending", "failed", "succeeded"}]
      /\ balance' \in [Users -> Nat]
      /\ credited' \in [Invoices -> Nat]
      /\ InvoicesOK'
      /\ CreditedAsPaid'
      /\ \A j \in Invoices : pay'[j] = "none" => pay[j] = "none"
    BY <1>1, TopUpKeeps
<1>3. fsm' \in [Users -> [amount : Nat, invoice : Invoices \cup {NoInvoice}]]
      /\ \A u \in Users : fsm'[u] \in {fsm[u], NoData}
    BY DEF JobCredit, IInv, TypeOK, NoData
<1>4. TypeOK'
    BY <1>2, <1>3 DEF JobCredit, IInv, TypeOK, NoJob
<1>5. (JobsOK /\ SweepOK /\ UpdatesOK)'
    BY <1>1 DEF JobCredit, IInv, TypeOK, JobsOK, SweepOK, UpdatesOK, NoJob
<1>6. ConversationsOK'
    BY <1>1, <1>2, <1>3, PaymentsAssumption
       DEF IInv, TypeOK, ConversationsOK, NoData, Invoices
<1> QED
    BY <1>2, <1>4, <1>5, <1>6 DEF IInv

LEMMA SuccessfulPaymentIInv ==
    ASSUME IInv, NEW i \in Invoices, NEW again \in BOOLEAN,
           SuccessfulPayment(i, again)
    PROVE  IInv'
<1>1. /\ invoice[i].state = "paid"
      /\ TopUp(i, invoice[i].user, invoice[i].amount)
      /\ UNCHANGED <<invoice, request, age>>
    BY DEF SuccessfulPayment, IInv, UpdatesOK, convVars
<1>2. /\ pay' \in [Invoices -> {"none", "pending", "failed", "succeeded"}]
      /\ balance' \in [Users -> Nat]
      /\ credited' \in [Invoices -> Nat]
      /\ InvoicesOK'
      /\ CreditedAsPaid'
      /\ \A j \in Invoices : pay'[j] = "none" => pay[j] = "none"
    BY <1>1, TopUpKeeps
<1>3. updates' \subseteq updates
    BY DEF SuccessfulPayment
<1>4. TypeOK'
    BY <1>2, <1>3 DEF SuccessfulPayment, IInv, TypeOK, convVars
<1>5. (JobsOK /\ SweepOK /\ UpdatesOK)'
    BY <1>1, <1>3 DEF SuccessfulPayment, IInv, JobsOK, SweepOK, UpdatesOK
<1>6. ConversationsOK'
    BY <1>1, <1>2
       DEF SuccessfulPayment, IInv, ConversationsOK, convVars, Invoices
<1> QED
    BY <1>2, <1>4, <1>5, <1>6 DEF IInv

LEMMA RecoverCreditIInv ==
    ASSUME IInv, RecoverCredit
    PROVE  IInv'
<1> DEFINE i == sweep.at
<1>1. /\ i \in Invoices /\ invoice[i].state = "paid"
      /\ TopUp(i, invoice[i].user, invoice[i].amount)
      /\ UNCHANGED <<invoice, request, age>>
    BY DEF RecoverCredit, IInv, SweepOK, convVars, Invoices
<1>2. /\ pay' \in [Invoices -> {"none", "pending", "failed", "succeeded"}]
      /\ balance' \in [Users -> Nat]
      /\ credited' \in [Invoices -> Nat]
      /\ InvoicesOK'
      /\ CreditedAsPaid'
      /\ \A j \in Invoices : pay'[j] = "none" => pay[j] = "none"
    BY <1>1, TopUpKeeps
<1>3. TypeOK'
    BY <1>2 DEF RecoverCredit, IInv, TypeOK, convVars
<1>4. (JobsOK /\ SweepOK /\ UpdatesOK)'
    BY <1>1 DEF RecoverCredit, IInv, TypeOK, JobsOK, SweepOK, UpdatesOK
<1>5. ConversationsOK'
    BY <1>1, <1>2 DEF RecoverCredit, IInv, ConversationsOK, convVars, Invoices
<1> QED
    BY <1>2, <1>3, <1>4, <1>5 DEF IInv

-----------------------------------------------------------------------------
(***************************************************************************)
(* The theorems                                                            *)
(***************************************************************************)

LEMMA NextIInv ==
    ASSUME FsmExpires, IInv, [Next]_vars
    PROVE  IInv'
<1>1. ASSUME NEW u \in Users, NEW a \in Amounts, EnterAmount(u, a) PROVE IInv'
    BY <1>1, EnterAmountIInv
<1>2. ASSUME NEW u \in Users, NEW code \in Gateways, Refuse(u, code) PROVE IInv'
    BY <1>2, RefuseIInv
<1>3. ASSUME NEW u \in Users, NEW i \in Invoices,
             CreateInvoice(u, i) \/ SendStarsInvoice(u, i)
      PROVE  IInv'
    BY <1>3, CreateInvoiceIInv, SendStarsInvoiceIInv
<1>4. ASSUME NEW u \in Users, NEW s \in Slots, CheckAsk(u, s) PROVE IInv'
    BY <1>4, CheckAskIInv
<1>5. ASSUME NEW u \in Users, ExpireConversation(u) PROVE IInv'
    BY <1>5, ExpireConversationIInv
<1>6. ASSUME NEW i \in Invoices,
             RecordPending(i) \/ ShowInvoice(i) \/ FailRequest(i)
      PROVE  IInv'
    BY <1>6, RecordPendingIInv, ShowInvoiceIInv, FailRequestIInv
<1>7. CASE Conversation
    BY <1>1, <1>2, <1>3, <1>4, <1>5, <1>6, <1>7 DEF Conversation
<1>8. CASE RecoverStep
    BY <1>8, RecoverSweepIInv, RecoverCreditIInv, RecoverErrorIInv,
       MarkFailedIInv, RecoverAskIInv, RecoverSkipIInv DEF RecoverStep
<1>9. ASSUME NEW s \in Slots, JobCredit(s) \/ JobError(s) PROVE IInv'
    BY <1>9, JobCreditIInv, JobErrorIInv
<1>10. ASSUME NEW i \in Invoices, NEW s \in Slots, Webhook(i, s) PROVE IInv'
    BY <1>10, WebhookIInv
<1>11. ASSUME NEW i \in Invoices, NEW again \in BOOLEAN,
              SuccessfulPayment(i, again)
       PROVE  IInv'
    BY <1>11, SuccessfulPaymentIInv
<1>12. ASSUME NEW i \in Invoices,
              DropUpdate(i) \/ Pay(i) \/ Expire(i) \/ Age(i)
       PROVE  IInv'
    BY <1>12, DropUpdateIInv, PayIInv, ExpireIInv, AgeIInv
<1>13. CASE Cleanup \/ Crash
    BY <1>13, CleanupIInv, CrashIInv
<1>14. CASE UNCHANGED vars
    BY <1>14 DEF IInv, TypeOK, InvoicesOK, InvoiceOK, JobsOK, SweepOK,
       UpdatesOK, ConversationsOK, CreditedAsPaid, vars, convVars, workVars
<1> QED
    BY <1>7, <1>8, <1>9, <1>10, <1>11, <1>12, <1>13, <1>14 DEF Next

\* What process_payment_topup and its callers rely on always holds.
THEOREM PaymentsInvariance ==
    ASSUME FsmExpires PROVE Spec => []IInv
<1>1. IInv /\ [Next]_vars => IInv'
    BY NextIInv
<1> QED
    BY <1>1, InitIInv, PTL DEF Spec

\* Every variable keeps its type.
THEOREM PaymentsTypeCorrect ==
    ASSUME FsmExpires PROVE Spec => []TypeOK
<1>1. IInv => TypeOK
    BY DEF IInv
<1> QED
    BY <1>1, PaymentsInvariance, PTL

\* A payments row is succeeded exactly when the amount of a paid invoice is
\* on the balance, however button presses, webhooks, updates and the sweep
\* interleave (process_payment_with_referral, _mark_payment_failed).
THEOREM AlwaysCreditedAsPaid ==
    ASSUME FsmExpires PROVE Spec => []CreditedAsPaid
<1>1. IInv => CreditedAsPaid
    BY DEF IInv
<1> QED
    BY <1>1, PaymentsInvariance, PTL

-----------------------------------------------------------------------------
(***************************************************************************)
(* Payments implements TopUps                                              *)
(***************************************************************************)

LEMMA InitRefines == Init => Ledger!TopUpsInit
<1> SUFFICES ASSUME Init PROVE Ledger!TopUpsInit
    OBVIOUS
<1>1. IInv
    BY InitIInv
<1>2. \A i \in Invoices : invoice[i].state \in {"active", "none"}
    BY PaymentsAssumption DEF Init, Issued
<1> QED
    BY <1>1, <1>2
       DEF Init, IInv, TypeOK, Ledger!TopUpsInit, Ledger!Bills

\* A step that leaves the invoices and the balances alone, and no row becomes
\* or stops being succeeded, is a stutter of the ledger.
LEMMA StutterRefines ==
    ASSUME UNCHANGED <<invoice, balance>>,
           \A i \in Invoices : pay'[i] = "succeeded" <=> pay[i] = "succeeded"
    PROVE  UNCHANGED Ledger!topUpVars
    BY DEF Ledger!topUpVars

\* TopUp of a paid invoice is one Credit, or a stutter when it is late.
LEMMA TopUpRefines ==
    ASSUME IInv, NEW i \in Invoices, NEW amount,
           invoice[i].state = "paid", amount = invoice[i].amount,
           TopUp(i, invoice[i].user, amount), UNCHANGED invoice
    PROVE  [Ledger!TopUpsNext]_(Ledger!topUpVars)
<1>1. CASE pay[i] = "succeeded"
    BY <1>1, StutterRefines DEF TopUp
<1>2. CASE pay[i] # "succeeded"
  <2>1. /\ pay' = [pay EXCEPT ![i] = "succeeded"]
        /\ balance' = [balance EXCEPT ![invoice[i].user]
                                        = @ + invoice[i].amount]
      BY <1>2 DEF TopUp
  <2>2. {j \in Invoices : pay'[j] = "succeeded"}
          = {j \in Invoices : pay[j] = "succeeded"} \cup {i}
      BY <2>1 DEF IInv, TypeOK
  <2>3. Ledger!Credit(i)
      BY <1>2, <2>1, <2>2 DEF Ledger!Credit
  <2> QED
      BY <2>3 DEF Ledger!TopUpsNext
<1> QED
    BY <1>1, <1>2

\* Asking a gateway for an invoice is Issue.
LEMMA IssueRefines ==
    ASSUME IInv, NEW i \in Invoices, NEW u \in Users, NEW amount \in Nat,
           invoice[i].state = "none",
           invoice' = [invoice EXCEPT ![i] = Issued(u, amount)],
           UNCHANGED <<pay, balance>>
    PROVE  Ledger!TopUpsNext
<1>1. invoice[i].user = NoUser /\ u # NoUser
    BY PaymentsAssumption DEF IInv, InvoicesOK, InvoiceOK
<1>2. invoice'[i] = [user |-> u, amount |-> amount, state |-> "active"]
      /\ \A j \in Invoices \ {i} : invoice'[j] = invoice[j]
    BY DEF IInv, TypeOK, Issued
<1>3. {j \in Invoices : invoice'[j].state = "paid"}
        = {j \in Invoices : invoice[j].state = "paid"}
    BY <1>2
<1> DEFINE bill == [j \in Invoices |-> [user |-> invoice[j].user,
                                        amount |-> invoice[j].amount]]
<1>4. Ledger!Issue(i)
  <2>1. bill[i].user = NoUser
      BY <1>1
  <2>2. bill'[i] = [user |-> u, amount |-> amount]
      BY <1>2
  <2>3. bill' = [bill EXCEPT ![i] = bill'[i]]
      BY <1>2
  <2> QED
      BY <1>1, <1>3, <2>1, <2>2, <2>3 DEF Ledger!Issue, Ledger!Bills
<1> QED
    BY <1>4 DEF Ledger!TopUpsNext

\* The gateway taking the money is Take.
LEMMA PayRefines ==
    ASSUME IInv, NEW i \in Invoices, Pay(i)
    PROVE  Ledger!TopUpsNext
<1>1. /\ invoice[i].user # NoUser /\ invoice[i].state = "active"
      /\ invoice' = [invoice EXCEPT ![i].state = "paid"]
      /\ UNCHANGED <<pay, balance>>
    BY PaymentsAssumption DEF Pay, IInv, InvoicesOK, InvoiceOK
<1>2. \A j \in Invoices : /\ invoice'[j].user = invoice[j].user
                          /\ invoice'[j].amount = invoice[j].amount
    BY <1>1 DEF IInv, TypeOK
<1>3. {j \in Invoices : invoice'[j].state = "paid"}
        = {j \in Invoices : invoice[j].state = "paid"} \cup {i}
    BY <1>1 DEF IInv, TypeOK
<1>4. Ledger!Take(i)
    BY <1>1, <1>2, <1>3 DEF Ledger!Take
<1> QED
    BY <1>4 DEF Ledger!TopUpsNext

\* An invoice that lapses is of no concern to the ledger.
LEMMA ExpireRefines ==
    ASSUME IInv, NEW i \in Invoices, Expire(i)
    PROVE  UNCHANGED Ledger!topUpVars
<1>1. /\ invoice[i].state = "active"
      /\ invoice' = [invoice EXCEPT ![i].state = "expired"]
      /\ UNCHANGED <<pay, balance>>
    BY DEF Expire
<1>2. \A j \in Invoices : /\ invoice'[j].user = invoice[j].user
                          /\ invoice'[j].amount = invoice[j].amount
    BY <1>1 DEF IInv, TypeOK
<1>3. {j \in Invoices : invoice'[j].state = "paid"}
        = {j \in Invoices : invoice[j].state = "paid"}
    BY <1>1 DEF IInv, TypeOK
<1> QED
    BY <1>1, <1>2, <1>3 DEF Ledger!topUpVars

LEMMA NextRefines ==
    ASSUME IInv, [Next]_vars
    PROVE  [Ledger!TopUpsNext]_(Ledger!topUpVars)
<1> DEFINE Goal == [Ledger!TopUpsNext]_(Ledger!topUpVars)
<1>1. ASSUME NEW u \in Users, NEW i \in Invoices, CreateInvoice(u, i)
      PROVE  Goal
  <2>1. fsm[u].amount \in Nat
      BY DEF IInv, TypeOK
  <2> QED
      BY <1>1, <2>1, IssueRefines DEF CreateInvoice
<1>2. ASSUME NEW u \in Users, NEW i \in Invoices, SendStarsInvoice(u, i)
      PROVE  Goal
  <2>1. InvoiceAmount(i, fsm[u].amount) \in Nat
      BY DEF IInv, TypeOK, InvoiceAmount
  <2> QED
      BY <1>2, <2>1, IssueRefines DEF SendStarsInvoice
<1>3. ASSUME NEW i \in Invoices, RecordPending(i) PROVE Goal
  <2>1. \A j \in Invoices : pay'[j] = "succeeded" <=> pay[j] = "succeeded"
      BY <1>3 DEF RecordPending, IInv, TypeOK, InvoicesOK, InvoiceOK
  <2> QED
      BY <1>3, <2>1, StutterRefines DEF RecordPending
<1>4. ASSUME NEW i \in Invoices, ShowInvoice(i) \/ FailRequest(i) PROVE Goal
    BY <1>4, StutterRefines DEF ShowInvoice, FailRequest
<1>5. ASSUME NEW u \in Users,
             \/ \E a \in Amounts : EnterAmount(u, a)
             \/ \E code \in Gateways : Refuse(u, code)
             \/ \E s \in Slots : CheckAsk(u, s)
             \/ ExpireConversation(u)
      PROVE  Goal
    BY <1>5, StutterRefines
       DEF EnterAmount, Refuse, CheckAsk, ExpireConversation
<1>6. ASSUME Conversation PROVE Goal
    BY <1>1, <1>2, <1>3, <1>4, <1>5, <1>6 DEF Conversation
<1>7. ASSUME RecoverCredit PROVE Goal
  <2>1. sweep.at \in Invoices /\ invoice[sweep.at].state = "paid"
      BY <1>7 DEF RecoverCredit, IInv, SweepOK, Invoices
  <2> QED
      BY <1>7, <2>1, TopUpRefines DEF RecoverCredit
<1>8. ASSUME MarkFailed PROVE Goal
  <2>1. \A j \in Invoices : pay'[j] = "succeeded" <=> pay[j] = "succeeded"
      BY <1>8 DEF MarkFailed, IInv, TypeOK, SweepOK, CreditedAsPaid, Invoices
  <2> QED
      BY <1>8, <2>1, StutterRefines DEF MarkFailed
<1>9. ASSUME NEW i \in Invoices, RecoverAsk(i) \/ RecoverSkip(i) PROVE Goal
    BY <1>9, StutterRefines DEF RecoverAsk, RecoverSkip
<1>10. ASSUME RecoverStep PROVE Goal
  <2>1. CASE RecoverSweep \/ RecoverError
      BY <2>1, StutterRefines DEF RecoverSweep, RecoverError
  <2> QED
      BY <1>7, <1>8, <1>9, <1>10, <2>1 DEF RecoverStep
<1>11. ASSUME NEW s \in Slots, JobCredit(s) PROVE Goal
  <2>1. /\ jobs[s].invoice \in Invoices
        /\ invoice[jobs[s].invoice].state = "paid"
        /\ jobs[s].amount = invoice[jobs[s].invoice].amount
      BY <1>11 DEF JobCredit, IInv, JobsOK
  <2> QED
      BY <1>11, <2>1, TopUpRefines DEF JobCredit
<1>12. ASSUME NEW i \in Invoices, NEW again \in BOOLEAN,
              SuccessfulPayment(i, again)
       PROVE  Goal
  <2>1. invoice[i].state = "paid"
      BY <1>12 DEF SuccessfulPayment, IInv, UpdatesOK
  <2> QED
      BY <1>12, <2>1, TopUpRefines DEF SuccessfulPayment
<1>13. ASSUME NEW s \in Slots, NEW i \in Invoices,
              Webhook(i, s)
       PROVE  Goal
    BY <1>13, StutterRefines DEF Webhook
<1>14. ASSUME NEW s \in Slots, JobError(s) PROVE Goal
    BY <1>14, StutterRefines DEF JobError
<1>15. ASSUME NEW i \in Invoices, Pay(i) PROVE Goal
    BY <1>15, PayRefines
<1>16. ASSUME NEW i \in Invoices, Expire(i) PROVE Goal
    BY <1>16, ExpireRefines
<1>17. ASSUME NEW i \in Invoices, DropUpdate(i) \/ Age(i) PROVE Goal
    BY <1>17, StutterRefines DEF DropUpdate, Age
<1>18. ASSUME Cleanup PROVE Goal
  <2>1. \A j \in Invoices : pay'[j] = "succeeded" <=> pay[j] = "succeeded"
      BY <1>18 DEF Cleanup, Expendable
  <2> QED
      BY <1>18, <2>1, StutterRefines DEF Cleanup
<1>19. ASSUME Crash PROVE Goal
    BY <1>19, StutterRefines DEF Crash
<1>20. CASE UNCHANGED vars
    BY <1>20, StutterRefines DEF vars
<1>21. ASSUME Next PROVE Goal
  <2> HIDE DEF Goal
  <2>1. ASSUME NEW s \in Slots, JobCredit(s) \/ JobError(s) PROVE Goal
      BY <1>11, <1>14, <2>1
  <2>2. ASSUME NEW i \in Invoices,
               \/ \E s \in Slots : Webhook(i, s)
               \/ \E again \in BOOLEAN : SuccessfulPayment(i, again)
               \/ DropUpdate(i) \/ Pay(i) \/ Expire(i) \/ Age(i)
        PROVE  Goal
      BY <1>12, <1>13, <1>15, <1>16, <1>17, <2>2
  <2> QED
      BY <1>6, <1>10, <1>18, <1>19, <1>21, <2>1, <2>2 DEF Next
<1> QED
    BY <1>20, <1>21

\* The handlers, the webhook and the sweep together credit every payment at
\* most once, to the user it belongs to and with the amount the gateway took
\* (process_payment_topup): Payments implements TopUps.
THEOREM Implements ==
    ASSUME FsmExpires PROVE Spec => CreditsOnce
<1>1. IInv /\ [Next]_vars => [Ledger!TopUpsNext]_(Ledger!topUpVars)
    BY NextRefines
<1> QED
    BY <1>1, InitRefines, PaymentsInvariance, PTL
       DEF Spec, CreditsOnce, Ledger!TopUpsSpec
=============================================================================
