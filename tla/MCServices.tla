----------------------------- MODULE MCServices -----------------------------
(***************************************************************************)
(* Small instances of the services behind the handlers. They share no      *)
(* state, so a behaviour is about one of them, chosen at the start: focus. *)
(***************************************************************************)
EXTENDS Caching, RoleCache, Admission, Mailing, Restock, AuditTrail, Gate, RowLocks, TLC

CONSTANTS key, stat, first, second, cartA, cartB, single, workerA, workerB, refund, topUp, ann, bob

\* Two readers of one row that writes invalidate.
ReaderCalls == {<<first, key>>, <<second, key>>}

\* Bob was invited by ann. Both check out carts with the same goods, listed in
\* opposite orders; bob buys one of them for ann as a gift, two orders of his
\* are fulfilled, one is refunded, and a payment of his is credited.
Job(op, user, recipient, goods, promos, referrer, order) ==
    [op |-> op, user |-> user, recipient |-> recipient, goods |-> goods,
     promos |-> promos, referrer |-> referrer, order |-> order]
SmallJobs == cartA :> Job("checkout", ann, ann, <<1, 2>>, <<1, 2>>, Nobody, 0)
          @@ cartB :> Job("checkout", bob, bob, <<2, 1>>, <<2>>, Nobody, 0)
          @@ single :> Job("buy", bob, ann, <<1>>, <<2>>, ann, 0)
          @@ workerA :> Job("fulfil", bob, bob, <<>>, <<>>, ann, 1)
          @@ workerB :> Job("fulfil", bob, bob, <<>>, <<>>, ann, 2)
          @@ refund :> Job("refund", bob, bob, <<>>, <<>>, ann, 1)
          @@ topUp :> Job("topup", bob, bob, <<>>, <<>>, Nobody, 1)

VARIABLE focus

vars == <<focus, cacheVars, roleVars, admissionVars, mailVars, restockVars,
          auditVars, gateVars, lockVars>>

Init ==
    /\ focus \in {"cache", "roles", "admission", "mail", "restock", "audit", "gate", "locks"}
    /\ CacheInit /\ RoleInit /\ AdmissionInit /\ MailInit /\ RestockInit /\ AuditInit
    /\ GateInit /\ RowLocksInit
    /\ focus # "gate" => ~dbBlocked
    /\ focus # "roles" => userMask = NoPerms
    /\ focus # "admission" => redisHealthy

Next ==
    /\ UNCHANGED focus
    /\ IF focus = "cache" THEN CacheNext ELSE UNCHANGED cacheVars
    /\ IF focus = "roles" THEN RoleNext ELSE UNCHANGED roleVars
    /\ IF focus = "admission" THEN AdmissionNext ELSE UNCHANGED admissionVars
    /\ IF focus = "mail" THEN MailNext ELSE UNCHANGED mailVars
    /\ IF focus = "restock" THEN RestockNext ELSE UNCHANGED restockVars
    /\ IF focus = "audit" THEN AuditNext ELSE UNCHANGED auditVars
    /\ IF focus = "gate" THEN GateNext ELSE UNCHANGED gateVars
    /\ IF focus = "locks" THEN RowLocksNext ELSE UNCHANGED lockVars

\* The event loop runs the background tasks and the health check, which also
\* replays, and an outage of Redis ends.
Fairness ==
    /\ WF_cacheVars(focus = "cache" /\ \E k \in Keys : RunInvalidation(k))
    /\ WF_cacheVars(focus = "cache" /\ CheckHealth)
    /\ WF_cacheVars(focus = "cache" /\ ReplayStep)
    /\ WF_cacheVars(focus = "cache" /\ LinkBack)

ServicesSpec == Init /\ [][Next]_vars /\ Fairness

\* The state of every service is well formed; among the rest, an administrator
\* never has two mailings under way, however quickly the letters come.
ServicesTypeOK ==
    /\ CacheTypeOK
    /\ RoleTypeOK
    /\ AdmissionTypeOK
    /\ MailTypeOK
    /\ RestockTypeOK
    /\ AuditTypeOK
    /\ GateTypeOK
    /\ RowLocksTypeOK
=============================================================================
