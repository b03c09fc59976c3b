---------------------------- MODULE SupportDesk ----------------------------
(***************************************************************************)
(* Support tickets: bot/database/methods/support.py and its handlers for   *)
(* customers (bot/handlers/user/support.py) and for staff                  *)
(* (bot/handlers/admin/support.py).                                        *)
(*                                                                         *)
(* No method locks the ticket it read.  Every handler is a session with    *)
(* two steps, the reads with their checks and the flush with the commit,   *)
(* and sessions overlap: a conversation is not serialised, so a second     *)
(* message starts its handler before the first has cleared the state.  The *)
(* ORM writes the status only when it differs from the one it loaded.      *)
(***************************************************************************)
EXTENDS Naturals, FiniteSets

CONSTANTS
    Customers,
    TicketIds,      \* ids the table may give out
    ShopOrders,     \* order ids
    OrderOwner,     \* orders.user_id
    Sessions,       \* handlers that may be under way together
    MaxDeskSteps,   \* bound: sessions begun
    NoTicket, NoSession, NoOrder

ASSUME SupportAssumption ==
    /\ TicketIds \subseteq Nat /\ MaxDeskSteps \in Nat
    /\ OrderOwner \in [ShopOrders -> Customers] /\ NoOrder \notin ShopOrders
    /\ NoTicket \notin [user : Customers, status : {"open", "pending", "closed"},
                        order : ShopOrders \cup {NoOrder}, turn : {"user", "staff", "set"}]

VARIABLES
    tickets,        \* support_tickets; "turn" is what its last change was
    chat,           \* FSM state of each customer: which prompt is open
    session,        \* the sessions under way
    deskSteps,
    overlapped,     \* ghost: customers for whom two sessions have overlapped
    reopened        \* ghost: customers with a ticket that staff opened again

deskVars == <<tickets, chat, session, deskSteps, overlapped, reopened>>

Active == {"open", "pending"}
Statuses == Active \cup {"closed"}
Filed == {t \in TicketIds : tickets[t] # NoTicket}
ActiveOf(u) == {t \in Filed : tickets[t].user = u /\ tickets[t].status \in Active}

\* Tickets, prompts and sessions are well formed.
DeskTypeOK ==
    /\ tickets \in [TicketIds -> {NoTicket} \cup
          [user : Customers, status : Statuses, order : ShopOrders \cup {NoOrder},
           turn : {"user", "staff", "set"}]]
    /\ chat \in [Customers -> {<<"none">>, <<"newBody">>} \cup ({"message", "orderId"} \X TicketIds)]
    /\ \A s \in Sessions : session[s] = NoSession \/ session[s].user \in Customers
    /\ deskSteps \in 0..MaxDeskSteps
    /\ overlapped \subseteq Customers /\ reopened \subseteq Customers

DeskInit ==
    /\ tickets = [t \in TicketIds |-> NoTicket]
    /\ chat = [u \in Customers |-> <<"none">>]
    /\ session = [s \in Sessions |-> NoSession]
    /\ deskSteps = 0 /\ overlapped = {} /\ reopened = {}

-----------------------------------------------------------------------------
(***************************************************************************)
(* The prompts                                                             *)
(***************************************************************************)

\* support_home: shows the newest active ticket, or offers a new one.
SupportHome(u) ==
    /\ chat[u] # <<"none">>
    /\ chat' = [chat EXCEPT ![u] = <<"none">>]
    /\ UNCHANGED <<tickets, session, deskSteps, overlapped, reopened>>

\* support_new_start
SupportNew(u) ==
    /\ chat' = [chat EXCEPT ![u] = <<"newBody">>]
    /\ UNCHANGED <<tickets, session, deskSteps, overlapped, reopened>>

\* support_reply_start and support_link_start: the id comes with the button
\* and is checked only when the text arrives.
SupportPrompt(u, prompt, t) ==
    /\ t \in Filed
    /\ chat' = [chat EXCEPT ![u] = <<prompt, t>>]
    /\ UNCHANGED <<tickets, session, deskSteps, overlapped, reopened>>

-----------------------------------------------------------------------------
(***************************************************************************)
(* Sessions: the reads                                                     *)
(***************************************************************************)

\* A session of this customer's tickets begins.
Begin(s, u, data) ==
    /\ session[s] = NoSession /\ deskSteps < MaxDeskSteps
    /\ deskSteps' = deskSteps + 1
    /\ session' = [session EXCEPT ![s] = data]
    /\ overlapped' = IF \E r \in Sessions : session[r] # NoSession /\ session[r].user = u
                     THEN overlapped \cup {u} ELSE overlapped
    /\ UNCHANGED <<tickets, chat, reopened>>

Loaded(op, t) == [op |-> op, user |-> tickets[t].user, ticket |-> t, was |-> tickets[t].status]

\* Mutant: a ticket that waits for the customer does not count as active.
BeginCreateOpenOnly(s, u) ==
    /\ chat[u] = <<"newBody">>
    /\ \A t \in ActiveOf(u) : tickets[t].status # "open"
    /\ Begin(s, u, [op |-> "create", user |-> u])

\* support_new_body, create_ticket
BeginCreate(s, u) ==
    /\ chat[u] = <<"newBody">>
    /\ ActiveOf(u) = {}
    /\ Begin(s, u, [op |-> "create", user |-> u])

\* support_reply_message, add_user_message
BeginMessage(s, u, t) ==
    /\ chat[u] = <<"message", t>>
    /\ tickets[t].user = u /\ tickets[t].status # "closed"
    /\ Begin(s, u, Loaded("message", t))

\* support_link_order, link_order_to_ticket
BeginLink(s, u, t, o) ==
    /\ chat[u] = <<"orderId", t>>
    /\ tickets[t].user = u /\ tickets[t].status # "closed"
    /\ OrderOwner[o] = u
    /\ Begin(s, u, [op |-> "link", user |-> u, ticket |-> t, order |-> o])

\* support_close, close_ticket_by_user: from any old keyboard.
BeginClose(s, u, t) ==
    /\ t \in Filed /\ tickets[t].user = u
    /\ Begin(s, u, Loaded("close", t))

\* support_staff_reply_message, staff_reply
BeginReply(s, t) ==
    /\ t \in Filed /\ tickets[t].status # "closed"
    /\ Begin(s, tickets[t].user, Loaded("reply", t))

\* support_set_status, set_ticket_status_staff
BeginStatus(s, t, st) ==
    /\ t \in Filed
    /\ Begin(s, tickets[t].user, Loaded(st, t))

-----------------------------------------------------------------------------
(***************************************************************************)
(* Sessions: the flush and the commit                                      *)
(***************************************************************************)

End(s) ==
    /\ session[s] # NoSession
    /\ session' = [session EXCEPT ![s] = NoSession]
    /\ UNCHANGED deskSteps

Answered(u) == chat' = [chat EXCEPT ![u] = <<"none">>]

EndCreate(s) ==
    /\ End(s) /\ session[s].op = "create"
    /\ TicketIds \ Filed # {}
    /\ tickets' = [tickets EXCEPT ![CHOOSE t \in TicketIds \ Filed :
                                       \A q \in TicketIds \ Filed : t <= q] =
          [user |-> session[s].user, status |-> "open", order |-> NoOrder, turn |-> "user"]]
    /\ Answered(session[s].user)
    /\ UNCHANGED <<overlapped, reopened>>

\* The row after a status was set on the object that was loaded.
Written(row, was, st, turn) ==
    [row EXCEPT !.status = IF was = st THEN @ ELSE st, !.turn = turn]

EndMessage(s) ==
    /\ End(s) /\ session[s].op = "message"
    /\ tickets' = [tickets EXCEPT ![session[s].ticket] =
          Written(@, session[s].was, "open", "user")]
    /\ Answered(session[s].user)
    /\ UNCHANGED <<overlapped, reopened>>

EndLink(s) ==
    /\ End(s) /\ session[s].op = "link"
    /\ tickets' = [tickets EXCEPT ![session[s].ticket].order = session[s].order]
    /\ Answered(session[s].user)
    /\ UNCHANGED <<overlapped, reopened>>

EndClose(s) ==
    /\ End(s) /\ session[s].op = "close"
    /\ tickets' = [tickets EXCEPT ![session[s].ticket] =
          Written(@, session[s].was, "closed", "set")]
    /\ Answered(session[s].user)
    /\ UNCHANGED <<overlapped, reopened>>

EndReply(s) ==
    /\ End(s) /\ session[s].op = "reply"
    /\ tickets' = [tickets EXCEPT ![session[s].ticket] =
          Written(@, session[s].was, "pending", "staff")]
    /\ UNCHANGED <<chat, overlapped, reopened>>

EndStatus(s, st) ==
    /\ End(s) /\ session[s].op = st
    /\ tickets' = [tickets EXCEPT ![session[s].ticket] =
          Written(@, session[s].was, st, "set")]
    /\ reopened' = IF st \in Active /\ tickets[session[s].ticket].status = "closed"
                   THEN reopened \cup {session[s].user} ELSE reopened
    /\ UNCHANGED <<chat, overlapped>>

DeskNext ==
    \/ \E u \in Customers : SupportHome(u) \/ SupportNew(u)
    \/ \E u \in Customers, t \in TicketIds, prompt \in {"message", "orderId"} :
          SupportPrompt(u, prompt, t)
    \/ \E s \in Sessions, u \in Customers : BeginCreate(s, u)
    \/ \E s \in Sessions, u \in Customers, t \in TicketIds :
          BeginMessage(s, u, t) \/ BeginClose(s, u, t) \/ \E o \in ShopOrders : BeginLink(s, u, t, o)
    \/ \E s \in Sessions, t \in TicketIds : BeginReply(s, t)
    \/ \E s \in Sessions, t \in TicketIds, st \in Statuses : BeginStatus(s, t, st)
    \/ \E s \in Sessions : EndCreate(s) \/ EndMessage(s) \/ EndLink(s) \/ EndClose(s) \/ EndReply(s)
    \/ \E s \in Sessions, st \in Statuses : EndStatus(s, st)

DeskSpec == DeskInit /\ [][DeskNext]_deskVars

-----------------------------------------------------------------------------
\* What the staff see of a customer is true. There is one active ticket, unless
\* two of the customer's sessions overlapped (nothing locks between the search
\* and the insert) or staff opened an old ticket again while a newer one was
\* there. The ticket tells whose turn it is: open after a customer's message,
\* pending after an answer. The order it shows is the customer's own, although
\* a prompt may be answered long after it was opened.
TicketQueueIsTrue ==
    /\ \A u \in Customers \ (overlapped \cup reopened) : Cardinality(ActiveOf(u)) <= 1
    /\ \A t \in Filed :
        /\ tickets[t].order # NoOrder => OrderOwner[tickets[t].order] = tickets[t].user
        /\ tickets[t].user \notin overlapped =>
            /\ tickets[t].turn = "user" => tickets[t].status = "open"
            /\ tickets[t].turn = "staff" => tickets[t].status = "pending"
=============================================================================
