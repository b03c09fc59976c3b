----------------------------- MODULE Admission -----------------------------
(***************************************************************************)
(* What an update passes before its handler runs: the rate limiter         *)
(* (bot/middleware/rate_limit.py) and then the checks of the security      *)
(* middleware, for one user; limits, windows and bans are kept per user,   *)
(* so users do not interact.                                               *)
(*                                                                         *)
(* The limiter has two stores with the same rules: sorted sets in Redis,   *)
(* changed by one atomic script, and lists in the process, used while      *)
(* Redis is unhealthy or when the script fails.  A window is kept as the   *)
(* number of requests recorded at each age; time passes in ticks.          *)
(***************************************************************************)
EXTENDS Naturals, Functions

CONSTANTS
    GlobalLimit, GlobalWindow,  \* requests and ticks
    ActionLimit, ActionWindow,  \* of the limited action
    BanDuration

ASSUME AdmissionAssumption ==
    /\ {GlobalLimit, GlobalWindow, ActionLimit, ActionWindow} \subseteq Nat \ {0}
    /\ BanDuration \in Nat /\ BanDuration >= GlobalWindow

VARIABLES
    globalHits,     \* per store: recorded requests by age
    actionHits,     \* per store: recorded requests of the limited action by age
    banAge,         \* per store: ticks since the last ban, LongAgo if none
    redisHealthy,   \* the cache manager thinks Redis is up
    redisAnswers,   \* the script call succeeds
    budgetUsed,     \* ghost: per store, requests past the global window, by age
    actionUsed,     \* ghost: per store, requests of the action let through, by age
    earned          \* ghost: how the last ban of each store came about

admissionVars == <<globalHits, actionHits, banAge, redisHealthy, redisAnswers,
                   budgetUsed, actionUsed, earned>>

Stores == {"redis", "memory"}
LongAgo == BanDuration + GlobalWindow
Window(w, n) == [0..(w - 1) -> 0..n]

\* The windows and bans of both stores are well formed.
AdmissionTypeOK ==
    /\ globalHits \in [Stores -> Window(GlobalWindow, GlobalLimit)]
    /\ actionHits \in [Stores -> Window(ActionWindow, ActionLimit)]
    /\ banAge \in [Stores -> 0..LongAgo]
    /\ {redisHealthy, redisAnswers} \subseteq BOOLEAN
    /\ earned \in [Stores -> BOOLEAN]

Empty(w) == [a \in 0..(w - 1) |-> 0]

AdmissionInit ==
    /\ globalHits = [s \in Stores |-> Empty(GlobalWindow)]
    /\ actionHits = [s \in Stores |-> Empty(ActionWindow)]
    /\ banAge = [s \in Stores |-> LongAgo]
    /\ redisHealthy \in BOOLEAN /\ redisAnswers = redisHealthy
    /\ budgetUsed = globalHits /\ actionUsed = actionHits
    /\ earned = [s \in Stores |-> TRUE]

-----------------------------------------------------------------------------
(***************************************************************************)
(* RateLimiter.check and the script _CHECK_LUA.                            *)
(***************************************************************************)

Now(hits) == [hits EXCEPT ![0] = @ + 1]

\* A ban runs out when the Redis key expires, or in memory when more than
\* its duration has passed.
Banned(s) == IF s = "redis" THEN banAge[s] < BanDuration ELSE banAge[s] <= BanDuration

Full(hits, limit) == SumFunction(hits) >= limit

\* The verdict of a store for a request: the ban comes first, even for an
\* administrator; then the bypass; then the global window, which is recorded
\* before the action's window is looked at.
Verdict(s, limited, bypass) ==
    IF Banned(s) THEN "banned"
    ELSE IF bypass THEN "allowed"
    ELSE IF Full(globalHits[s], GlobalLimit) THEN "global"
    ELSE IF limited /\ Full(actionHits[s], ActionLimit) THEN "action"
    ELSE "allowed"

\* Mutant: refused requests are recorded too.
RecordAll(s, limited, bypass) ==
    LET v == Verdict(s, limited, bypass)
    IN  /\ globalHits' = IF ~bypass /\ ~Full(globalHits[s], GlobalLimit)
                         THEN [globalHits EXCEPT ![s] = Now(@)] ELSE globalHits
        /\ actionHits' = IF v = "allowed" /\ ~bypass /\ limited
                         THEN [actionHits EXCEPT ![s] = Now(@)] ELSE actionHits
        /\ banAge' = IF v = "global" THEN [banAge EXCEPT ![s] = 0] ELSE banAge

\* Mutant: a request refused by its action's window is not recorded.
RecordAllowed(s, limited, bypass) ==
    LET v == Verdict(s, limited, bypass)
    IN  /\ globalHits' = IF v = "allowed" /\ ~bypass
                         THEN [globalHits EXCEPT ![s] = Now(@)] ELSE globalHits
        /\ actionHits' = IF v = "allowed" /\ ~bypass /\ limited
                         THEN [actionHits EXCEPT ![s] = Now(@)] ELSE actionHits
        /\ banAge' = IF v = "global" THEN [banAge EXCEPT ![s] = 0] ELSE banAge

\* What the verdict leaves in the store.
Record(s, limited, bypass) ==
    LET v == Verdict(s, limited, bypass)
    IN  /\ globalHits' = IF v \in {"allowed", "action"} /\ ~bypass
                         THEN [globalHits EXCEPT ![s] = Now(@)] ELSE globalHits
        /\ actionHits' = IF v = "allowed" /\ ~bypass /\ limited
                         THEN [actionHits EXCEPT ![s] = Now(@)] ELSE actionHits
        /\ banAge' = IF v = "global" THEN [banAge EXCEPT ![s] = 0] ELSE banAge

-----------------------------------------------------------------------------
(***************************************************************************)
(* RateLimitMiddleware.__call__                                            *)
(***************************************************************************)

\* _backend, and the fallback inside RedisRateLimiter.check: the script's
\* failure is not reported to the cache manager.
StoreInUse == IF redisHealthy /\ redisAnswers THEN "redis" ELSE "memory"

\* One update.  limited: its action has a limit; bypass: the cached role of
\* its sender has an administrator's permission.
Update(limited, bypass) ==
    LET s == StoreInUse
        v == Verdict(s, limited, bypass)
    IN  /\ Record(s, limited, bypass)
        /\ budgetUsed' = IF v \in {"allowed", "action"} /\ ~bypass
                         THEN [budgetUsed EXCEPT ![s] = Now(@)] ELSE budgetUsed
        /\ actionUsed' = IF v = "allowed" /\ limited /\ ~bypass
                         THEN [actionUsed EXCEPT ![s] = Now(@)] ELSE actionUsed
        /\ earned' = IF v # "global" THEN earned
                     ELSE [earned EXCEPT ![s] =
                             \/ banAge[s] = LongAgo
                             \/ \A a \in 0..(GlobalWindow - 1) :
                                   globalHits[s][a] > 0 => a <= banAge[s] - BanDuration]
        /\ UNCHANGED <<redisHealthy, redisAnswers>>

-----------------------------------------------------------------------------
(***************************************************************************)
(* The environment.                                                        *)
(***************************************************************************)

RedisFails ==
    /\ redisAnswers /\ redisAnswers' = FALSE
    /\ UNCHANGED <<globalHits, actionHits, banAge, redisHealthy, budgetUsed, actionUsed, earned>>

\* The cache manager notices an outage, or its end, in its own time.
ManagerNotices ==
    /\ redisHealthy # redisAnswers /\ redisHealthy' = redisAnswers
    /\ UNCHANGED <<globalHits, actionHits, banAge, redisAnswers, budgetUsed, actionUsed, earned>>

RedisReturns ==
    /\ ~redisAnswers /\ redisAnswers' = TRUE
    /\ UNCHANGED <<globalHits, actionHits, banAge, redisHealthy, budgetUsed, actionUsed, earned>>

Older(hits) == [a \in DOMAIN hits |-> IF a = 0 THEN 0 ELSE hits[a - 1]]

\* One tick: every request ages, and leaves the window at its length.
AdmissionTick ==
    /\ globalHits' = [s \in Stores |-> Older(globalHits[s])]
    /\ actionHits' = [s \in Stores |-> Older(actionHits[s])]
    /\ budgetUsed' = [s \in Stores |-> Older(budgetUsed[s])]
    /\ actionUsed' = [s \in Stores |-> Older(actionUsed[s])]
    /\ banAge' = [s \in Stores |-> IF banAge[s] = LongAgo THEN LongAgo ELSE banAge[s] + 1]
    /\ UNCHANGED <<redisHealthy, redisAnswers, earned>>

AdmissionNext ==
    \/ \E limited, bypass \in BOOLEAN : Update(limited, bypass)
    \/ RedisFails \/ ManagerNotices \/ RedisReturns \/ AdmissionTick

AdmissionSpec == AdmissionInit /\ [][AdmissionNext]_admissionVars

-----------------------------------------------------------------------------
(***************************************************************************)
(* Properties.                                                             *)
(***************************************************************************)

\* In no window does a store let more requests through than its limits say:
\* "a request rejected by an action limit still counts against the global
\* budget".  The stores do not know of each other, so a user whose requests
\* straddle an outage gets at most twice the limit.
WindowBound ==
    /\ \A s \in Stores : /\ SumFunction(budgetUsed[s]) <= GlobalLimit
                         /\ SumFunction(actionUsed[s]) <= ActionLimit
    /\ SumFunction(budgetUsed["redis"]) + SumFunction(budgetUsed["memory"]) <= 2 * GlobalLimit

\* Nobody is banned for what was refused while banned: a new ban of a store is
\* brought about by requests it let through after its previous ban had ended.
BanIsEarned == \A s \in Stores : earned[s]
=============================================================================
