------------------------------ MODULE Mailing ------------------------------
(***************************************************************************)
(* The mass mailing of one administrator (bot/handlers/admin/broadcast.py) *)
(* and the manager that sends it in batches                                *)
(* (bot/misc/services/broadcast_system.py).                                *)
(*                                                                         *)
(* The conversation stays in waiting_message for as long as a mailing      *)
(* runs, so every further text starts the handler again.                   *)
(***************************************************************************)
EXTENDS Naturals, FiniteSets

CONSTANTS
    Letters,        \* texts the administrator sends while the prompt is open
    Audience,       \* number of users: user_ids is 1..Audience
    BatchSize,      \* batch_size
    Retries,        \* retry_count
    NoLetter

ASSUME MailingAssumption ==
    /\ Audience \in Nat /\ BatchSize \in Nat \ {0} /\ Retries \in Nat \ {0}
    /\ NoLetter \notin Letters

VARIABLES
    prompt,         \* FSM: the conversation is in waiting_message
    slot,           \* broadcast_managers[admin_id]: whose manager it holds
    mailing,        \* the handler of each letter
    result,         \* per letter and user: what _send_message_safe has come to
    tries           \* per letter and user: attempts that are tried again

mailVars == <<prompt, slot, mailing, result, tries>>

Users == 1..Audience
BatchOf(i) == {u \in Users : i <= u /\ u < i + BatchSize}
Closed == {"sent", "blocked", "failed"}

NoMailing == [pc |-> "idle", at |-> 1, launched |-> FALSE, cancelled |-> FALSE,
              sent |-> 0, blocked |-> 0, failed |-> 0]

\* The mailings are well formed.
MailTypeOK ==
    /\ prompt \in BOOLEAN /\ slot \in Letters \cup {NoLetter}
    /\ \A l \in Letters :
          /\ mailing[l].pc \in {"idle", "reserved", "batch", "pause", "report", "done", "refused"}
          /\ mailing[l].sent + mailing[l].blocked + mailing[l].failed <= Audience
    /\ result \in [Letters -> [Users -> Closed \cup {"todo"}]]
    /\ tries \in [Letters -> [Users -> 0..Retries]]
    /\ Cardinality({l \in Letters : mailing[l].pc \in {"reserved", "batch", "pause", "report"}}) <= 1

MailInit ==
    /\ prompt = FALSE /\ slot = NoLetter
    /\ mailing = [l \in Letters |-> NoMailing]
    /\ result = [l \in Letters |-> [u \in Users |-> "todo"]]
    /\ tries = [l \in Letters |-> [u \in Users |-> 0]]

-----------------------------------------------------------------------------
(***************************************************************************)
(* The handler                                                             *)
(***************************************************************************)

\* send_message_callback_handler
OpenPrompt ==
    /\ ~prompt /\ prompt' = TRUE
    /\ UNCHANGED <<slot, mailing, result, tries>>

\* Mutant: the slot is taken only when the manager has been made.
ReceiveUnreserved(l) ==
    /\ prompt /\ mailing[l].pc = "idle"
    /\ mailing' = [mailing EXCEPT ![l].pc = IF slot # NoLetter THEN "refused" ELSE "reserved"]
    /\ UNCHANGED <<prompt, slot, result, tries>>

\* broadcast_messages up to its first await: a running mailing refuses the
\* letter, otherwise the slot is reserved at once.
Receive(l) ==
    /\ prompt /\ mailing[l].pc = "idle"
    /\ IF slot # NoLetter
       THEN /\ mailing' = [mailing EXCEPT ![l].pc = "refused"] /\ UNCHANGED slot
       ELSE /\ mailing' = [mailing EXCEPT ![l].pc = "reserved"] /\ slot' = l
    /\ UNCHANGED <<prompt, result, tries>>

\* The text is invalid, or the database or Telegram fails: no mailing.
Spoil(l) ==
    /\ mailing[l].pc = "reserved"
    /\ mailing' = [mailing EXCEPT ![l].pc = "report"]
    /\ UNCHANGED <<prompt, slot, result, tries>>

\* The users are read, the manager is registered, the first batch starts.
Launch(l) ==
    /\ mailing[l].pc = "reserved"
    /\ slot' = l
    /\ mailing' = [mailing EXCEPT ![l].launched = TRUE,
                                  ![l].pc = IF Audience = 0 THEN "report" ELSE "batch"]
    /\ UNCHANGED <<prompt, result, tries>>

\* cancel_broadcast_handler: finds the manager through the slot.
Cancel ==
    /\ slot # NoLetter /\ mailing[slot].pc \in {"batch", "pause"}
    /\ ~mailing[slot].cancelled
    /\ mailing' = [mailing EXCEPT ![slot].cancelled = TRUE]
    /\ UNCHANGED <<prompt, slot, result, tries>>

\* The final message, then the finally clause; what was sent is past.
Report(l) ==
    /\ mailing[l].pc = "report"
    /\ mailing' = [mailing EXCEPT ![l].pc = "done"]
    /\ slot' = NoLetter /\ prompt' = FALSE
    /\ result' = [result EXCEPT ![l] = [u \in Users |-> "todo"]]
    /\ tries' = [tries EXCEPT ![l] = [u \in Users |-> 0]]

-----------------------------------------------------------------------------
(***************************************************************************)
(* BroadcastManager                                                        *)
(***************************************************************************)

Pending(l, u) == mailing[l].pc = "batch" /\ u \in BatchOf(mailing[l].at) /\ result[l][u] = "todo"

\* _send_message_safe: an attempt that Telegram answers for good.
Answer(l, u, res) ==
    /\ Pending(l, u)
    /\ result' = [result EXCEPT ![l][u] = res]
    /\ UNCHANGED <<prompt, slot, mailing, tries>>

\* An attempt that is tried again: told to wait, or an unknown error.
Again(l, u) ==
    /\ Pending(l, u)
    /\ tries' = [tries EXCEPT ![l][u] = @ + 1]
    /\ result' = [result EXCEPT ![l][u] = IF tries[l][u] + 1 = Retries THEN "failed" ELSE @]
    /\ UNCHANGED <<prompt, slot, mailing>>

Tally(l, res) == Cardinality({u \in BatchOf(mailing[l].at) : result[l][u] = res})

\* Mutant: the loop stops at the last full batch.
LastBatchFull(i) == i + BatchSize + BatchSize > Audience + 1

LastBatch(i) == i + BatchSize > Audience

\* gather returns: the results are counted, the progress is shown.
BatchDone(l) ==
    /\ mailing[l].pc = "batch"
    /\ \A u \in BatchOf(mailing[l].at) : result[l][u] \in Closed
    /\ mailing' = [mailing EXCEPT
          ![l].pc = IF LastBatch(mailing[l].at) THEN "report" ELSE "pause",
          ![l].sent = @ + Tally(l, "sent"), ![l].blocked = @ + Tally(l, "blocked"),
          ![l].failed = @ + Tally(l, "failed")]
    /\ UNCHANGED <<prompt, slot, result, tries>>

\* The delay is over.
NextBatch(l) ==
    /\ mailing[l].pc = "pause"
    /\ mailing' = [mailing EXCEPT ![l].pc = IF mailing[l].cancelled THEN "report" ELSE "batch",
                                  ![l].at = IF mailing[l].cancelled THEN @ ELSE @ + BatchSize]
    /\ UNCHANGED <<prompt, slot, result, tries>>

MailNext ==
    \/ OpenPrompt \/ Cancel
    \/ \E l \in Letters : Receive(l) \/ Spoil(l) \/ Launch(l) \/ Report(l) \/ BatchDone(l) \/ NextBatch(l)
    \/ \E l \in Letters, u \in Users :
          Again(l, u) \/ \E res \in Closed : Answer(l, u, res)

MailSpec == MailInit /\ [][MailNext]_mailVars

-----------------------------------------------------------------------------
\* A mailing that ends without being cancelled has dealt with every user, and
\* a report adds up to what the attempts came to, batch after batch.
ReportIsTrue ==
    \A l \in Letters : mailing[l].pc = "report" /\ mailing[l].launched =>
        /\ \A res \in Closed :
              mailing[l][res] = Cardinality({u \in Users : result[l][u] = res})
        /\ ~mailing[l].cancelled =>
              mailing[l].sent + mailing[l].blocked + mailing[l].failed = Audience
=============================================================================
