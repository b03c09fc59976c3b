----------------------------- MODULE RoleCache -----------------------------
(***************************************************************************)
(* The cached permission bitmask of one user (bot/middleware/security.py): *)
(* a per-process tier, a shared Redis tier and the database behind them.   *)
(* Every gate of the bot decides on the value this cache gives: the        *)
(* rate-limit bypass, the maintenance gate, the admin gate, the permission *)
(* filters and the handlers' own checks.                                   *)
(*                                                                         *)
(* Time is counted in ticks and kept as ages, so the state is finite.  A   *)
(* lookup may take up to Latency ticks; a Redis delete may wait for an     *)
(* outage of any length to end.                                            *)
(***************************************************************************)
EXTENDS Naturals

CONSTANTS
    Masks,          \* permission bitmasks a user may have
    NoPerms,        \* the bitmask 0: no user row, or a role without permissions
    Lookups,        \* concurrent calls of resolve_role_cached
    RoleTtl,        \* ROLE_CACHE_TTL
    NegativeTtl,    \* NEGATIVE_ROLE_TTL
    Latency,        \* bound on the duration of one lookup
    NoRole

ASSUME RoleCacheAssumption ==
    /\ NoPerms \in Masks /\ NoRole \notin Masks
    /\ RoleTtl \in Nat /\ NegativeTtl \in Nat /\ Latency \in Nat
    /\ 0 < Latency /\ 0 < NegativeTtl /\ NegativeTtl <= RoleTtl

VARIABLES
    userMask,       \* the committed bitmask
    localRole,      \* admin_cache entry: bitmask and age
    sharedRole,     \* auth:role:<id> in Redis: bitmask and time left
    sharedUp,       \* Redis answers
    lookup,         \* the calls under way
    popDue,         \* a change is committed, its handler has not gone on yet
    userDrop,       \* invalidate_user_cache is scheduled
    sharedDrop,     \* a delete of the Redis entry is scheduled or deferred
    sinceLeft       \* ghost: ticks since each bitmask stopped being the user's

roleVars == <<userMask, localRole, sharedRole, sharedUp, lookup, popDue,
              userDrop, sharedDrop, sinceLeft>>
dropVars == <<popDue, userDrop, sharedDrop>>

\* The longest a withdrawn bitmask may be believed: a lookup that read it
\* before the change stores it in Redis, and a second lookup takes it from
\* there into the process just before it expires.
Longest == 2 * RoleTtl + 2 * Latency - 1

NoLookup == [pc |-> "idle", spent |-> 0]

LookupStates ==
    {NoLookup}
    \cup [pc : {"asked"}, spent : 0..Latency]
    \cup [pc : {"query"}, spent : 0..Latency, viaRedis : BOOLEAN]
    \cup [pc : {"found"}, spent : 0..Latency, role : Masks]
    \cup [pc : {"read"}, spent : 0..Latency, viaRedis : BOOLEAN, role : Masks]
    \cup [pc : {"store"}, spent : 0..Latency, role : Masks]

\* The role cache's state is well formed; the shared tier never holds 0.
RoleTypeOK ==
    /\ userMask \in Masks
    /\ localRole \in {NoRole} \cup [role : Masks, age : 0..RoleTtl]
    /\ sharedRole \in {NoRole} \cup [role : Masks \ {NoPerms}, left : 1..RoleTtl]
    /\ {sharedUp, popDue, userDrop, sharedDrop} \subseteq BOOLEAN
    /\ lookup \in [Lookups -> LookupStates]
    /\ sinceLeft \in [Masks -> 0..Longest]

RoleInit ==
    /\ userMask \in Masks
    /\ localRole = NoRole /\ sharedRole = NoRole /\ sharedUp = TRUE
    /\ lookup = [l \in Lookups |-> NoLookup]
    /\ popDue = FALSE /\ userDrop = FALSE /\ sharedDrop = FALSE
    /\ sinceLeft = [m \in Masks |-> IF m = userMask THEN 0 ELSE Longest]

-----------------------------------------------------------------------------
(***************************************************************************)
(* resolve_role_cached                                                     *)
(***************************************************************************)

\* Mutant: an unknown user is remembered as long as a known one.
LocalTtlFlat(role) == RoleTtl

\* How long the in-process tier believes a bitmask.
LocalTtl(role) == IF role = NoPerms THEN NegativeTtl ELSE RoleTtl

Usable == localRole # NoRole /\ localRole.age < LocalTtl(localRole.role)

\* The in-process tier has nothing: ask Redis if the cache is healthy.
LookupStart(l) ==
    /\ lookup[l] = NoLookup /\ ~Usable
    /\ lookup' = [lookup EXCEPT ![l] =
          IF sharedUp THEN [pc |-> "asked", spent |-> 0]
          ELSE [pc |-> "query", spent |-> 0, viaRedis |-> FALSE]]
    /\ UNCHANGED <<userMask, localRole, sharedRole, sharedUp, dropVars, sinceLeft>>

\* Redis answers; an error inside cache.get looks like a miss.
AskShared(l) ==
    /\ lookup[l].pc = "asked"
    /\ lookup' = [lookup EXCEPT ![l] =
          IF sharedUp /\ sharedRole # NoRole
          THEN [pc |-> "found", spent |-> lookup[l].spent, role |-> sharedRole.role]
          ELSE [pc |-> "query", spent |-> lookup[l].spent, viaRedis |-> TRUE]]
    /\ UNCHANGED <<userMask, localRole, sharedRole, sharedUp, dropVars, sinceLeft>>

\* check_role
QueryRole(l) ==
    /\ lookup[l].pc = "query"
    /\ lookup' = [lookup EXCEPT ![l] =
          [pc |-> "read", spent |-> @.spent, viaRedis |-> @.viaRedis, role |-> userMask]]
    /\ UNCHANGED <<userMask, localRole, sharedRole, sharedUp, dropVars, sinceLeft>>

\* The result goes into the in-process tier with the present time; a bitmask
\* other than 0 that came from the database goes on to Redis.
FillLocal(l) ==
    /\ lookup[l].pc \in {"found", "read"}
    /\ localRole' = [role |-> lookup[l].role, age |-> 0]
    /\ lookup' = [lookup EXCEPT ![l] =
          IF lookup[l].pc = "read" /\ lookup[l].viaRedis /\ lookup[l].role # NoPerms
          THEN [pc |-> "store", spent |-> @.spent, role |-> @.role] ELSE NoLookup]
    /\ UNCHANGED <<userMask, sharedRole, sharedUp, dropVars, sinceLeft>>

StoreShared(l) ==
    /\ lookup[l].pc = "store"
    /\ sharedRole' = IF sharedUp THEN [role |-> lookup[l].role, left |-> RoleTtl] ELSE sharedRole
    /\ lookup' = [lookup EXCEPT ![l] = NoLookup]
    /\ UNCHANGED <<userMask, localRole, sharedUp, dropVars, sinceLeft>>

-----------------------------------------------------------------------------
(***************************************************************************)
(* Changes: set_role followed by invalidate_auth_caches, and update_role   *)
(* followed by flush_all_role_caches.                                      *)
(***************************************************************************)

CommitMask(m) ==
    /\ m # userMask /\ ~popDue
    /\ userMask' = m /\ popDue' = TRUE
    /\ sinceLeft' = [sinceLeft EXCEPT ![userMask] = 0, ![m] = 0]
    /\ UNCHANGED <<localRole, sharedRole, sharedUp, lookup, userDrop, sharedDrop>>

\* The handler goes on: the in-process entry is dropped at once, the Redis
\* entry by a scheduled delete; set_role also scheduled invalidate_user_cache.
PopCaches ==
    /\ popDue /\ popDue' = FALSE
    /\ localRole' = NoRole /\ sharedDrop' = TRUE
    /\ userDrop' \in {userDrop, TRUE}
    /\ UNCHANGED <<userMask, sharedRole, sharedUp, lookup, sinceLeft>>

\* invalidate_user_cache: the Redis delete is made or deferred, then the
\* in-process entry is dropped once more.
RunUserDrop ==
    /\ userDrop /\ userDrop' = FALSE
    /\ sharedRole' = IF sharedUp THEN NoRole ELSE sharedRole
    /\ sharedDrop' = (sharedDrop \/ ~sharedUp)
    /\ localRole' = NoRole
    /\ UNCHANGED <<userMask, sharedUp, lookup, popDue, sinceLeft>>

RunSharedDrop ==
    /\ sharedDrop /\ sharedUp
    /\ sharedDrop' = FALSE /\ sharedRole' = NoRole
    /\ UNCHANGED <<userMask, localRole, sharedUp, lookup, popDue, userDrop, sinceLeft>>

SharedUpDown ==
    /\ sharedUp' = ~sharedUp
    /\ UNCHANGED <<userMask, localRole, sharedRole, lookup, dropVars, sinceLeft>>

\* A new process: only the database and Redis remain.
RestartRoles ==
    /\ localRole' = NoRole
    /\ lookup' = [l \in Lookups |-> NoLookup]
    /\ popDue' = FALSE /\ userDrop' = FALSE /\ sharedDrop' = FALSE
    /\ UNCHANGED <<userMask, sharedRole, sharedUp, sinceLeft>>

\* One tick of the clock.
RoleTick ==
    /\ \A l \in Lookups : lookup[l] = NoLookup \/ lookup[l].spent < Latency
    /\ lookup' = [l \in Lookups |-> IF lookup[l] = NoLookup THEN NoLookup
                                    ELSE [lookup[l] EXCEPT !.spent = @ + 1]]
    /\ localRole' = IF localRole = NoRole \/ localRole.age = RoleTtl THEN localRole
                    ELSE [localRole EXCEPT !.age = @ + 1]
    /\ sharedRole' = IF sharedRole = NoRole \/ sharedRole.left = 1 THEN NoRole
                     ELSE [sharedRole EXCEPT !.left = @ - 1]
    /\ sinceLeft' = [m \in Masks |-> IF m = userMask \/ sinceLeft[m] = Longest
                                     THEN sinceLeft[m] ELSE sinceLeft[m] + 1]
    /\ UNCHANGED <<userMask, sharedUp, dropVars>>

RoleNext ==
    \/ \E l \in Lookups : LookupStart(l) \/ AskShared(l) \/ QueryRole(l) \/ FillLocal(l)
                            \/ StoreShared(l)
    \/ \E m \in Masks : CommitMask(m)
    \/ PopCaches \/ RunUserDrop \/ RunSharedDrop \/ SharedUpDown \/ RestartRoles \/ RoleTick

RoleSpec == RoleInit /\ [][RoleNext]_roleVars

-----------------------------------------------------------------------------
\* A bitmask that has been taken away is believed for less than two lifetimes
\* of the cache (and the time of two lookups), whatever the interleaving of
\* lookups, the change, its deletes, Redis outages and restarts; a user who
\* had none and is given one waits no longer than the short lifetime of a
\* cached 0.
StaleRoleExpires ==
    Usable /\ localRole.role # userMask =>
        sinceLeft[localRole.role] < IF localRole.role = NoPerms
                                    THEN NegativeTtl + Latency ELSE Longest
=============================================================================
