------------------------------ MODULE Caching ------------------------------
(***************************************************************************)
(* The Redis cache in front of the database (bot/misc/caching/, and the    *)
(* cached reads and invalidations of bot/database/methods/read.py).        *)
(*                                                                         *)
(* A key stands for one cached read; the row behind it is represented by a *)
(* version number, 0 for "no such row" (a None result is never stored).    *)
(* Writers commit a new version and then schedule the invalidation as a    *)
(* background task.  Readers go through single_flight.  The manager        *)
(* notices an outage when a call fails, remembers the invalidations it     *)
(* could not make, up to a cap, and replays them once the periodic health  *)
(* probe finds Redis again.                                                *)
(***************************************************************************)
EXTENDS Naturals, FiniteSets

CONSTANTS
    Keys,           \* cache keys
    Known,          \* the keys under a prefix of _KNOWN_PREFIXES
    Swept,          \* the keys the scheduler's patterns match
    Readers,        \* concurrent callers of single_flight
    Calls,          \* which caller reads which key
    PendingCap,     \* _PENDING_CAP
    MaxWrites,      \* bound on committed writes
    MaxOutages,     \* bound on Redis outages
    MaxRestarts,    \* bound on restarts of the bot
    NoEntry, NoLock

ASSUME CachingAssumption ==
    /\ Known \subseteq Keys /\ Swept \subseteq Known
    /\ Calls \subseteq Readers \X Keys /\ IsFiniteSet(Readers)
    /\ NoEntry \notin [version : Nat, raced : BOOLEAN]
    /\ PendingCap \in Nat \ {0}
    /\ MaxWrites \in Nat /\ MaxOutages \in Nat /\ MaxRestarts \in Nat

VARIABLES
    rowVersion,     \* committed version behind each key
    redis,          \* entry of each key: its version, and was it stale when stored
    linkUp,         \* Redis answers
    enabled,        \* a cache manager exists (Redis answered at startup)
    healthy,        \* CacheManager._healthy
    invalidations,  \* background invalidation tasks not yet run, per key
    pendingDeletes, pendingPatterns, pendingOverflow,
    replay,         \* what _replay_pending has still to do
    flightLock,     \* _single_flight_locks
    reader,         \* where each caller of single_flight is
    computes,       \* ghost: storable results computed under each lock since a drop
    lost,           \* ghost: keys whose invalidation was never made or recorded
    outages, restarts

cacheVars == <<rowVersion, redis, linkUp, enabled, healthy, invalidations,
               pendingDeletes, pendingPatterns, pendingOverflow, replay,
               flightLock, reader, computes, lost, outages, restarts>>

pendingVars == <<pendingDeletes, pendingPatterns, pendingOverflow>>
flightVars == <<flightLock, reader>>
envVars == <<linkUp, enabled, outages, restarts>>

\* At most one lock per caller is referenced at any time.
LockIds == 1..Cardinality(Readers)
Idle == [pc |-> "idle"]
NoReplay == [running |-> FALSE, deletes |-> {}, patterns |-> {}]

ReaderStates ==
    {Idle}
    \cup [pc : {"missed"}, key : Keys]
    \cup [pc : {"waiting", "locked", "computing"}, key : Keys, lock : LockIds]
    \cup [pc : {"computed"}, key : Keys, lock : LockIds, seen : 0..MaxWrites]

\* The cache manager's and its callers' state is well formed.
CacheTypeOK ==
    /\ rowVersion \in [Keys -> 0..MaxWrites]
    /\ redis \in [Keys -> {NoEntry} \cup [version : 1..MaxWrites, raced : BOOLEAN]]
    /\ {linkUp, enabled, healthy, pendingOverflow} \subseteq BOOLEAN
    /\ invalidations \in [Keys -> 0..MaxWrites]
    /\ pendingDeletes \subseteq Keys /\ Cardinality(pendingDeletes) <= PendingCap
    /\ pendingPatterns \subseteq SUBSET Keys
    /\ replay \in [running : BOOLEAN, deletes : SUBSET Keys, patterns : SUBSET SUBSET Keys]
    /\ flightLock \in [Keys -> LockIds \cup {NoLock}]
    /\ reader \in [Readers -> ReaderStates]
    /\ computes \in [LockIds -> Nat]
    /\ lost \subseteq Keys
    /\ outages \in 0..MaxOutages /\ restarts \in 0..MaxRestarts

CacheInit ==
    /\ rowVersion = [k \in Keys |-> 0]
    /\ redis = [k \in Keys |-> NoEntry]
    /\ linkUp = TRUE /\ enabled = TRUE /\ healthy = TRUE
    /\ invalidations = [k \in Keys |-> 0]
    /\ pendingDeletes = {} /\ pendingPatterns = {} /\ pendingOverflow = FALSE
    /\ replay = NoReplay
    /\ flightLock = [k \in Keys |-> NoLock]
    /\ reader = [r \in Readers |-> Idle]
    /\ computes = [l \in LockIds |-> 0]
    /\ lost = {}
    /\ outages = 0 /\ restarts = 0

-----------------------------------------------------------------------------
(***************************************************************************)
(* The manager's calls.  A call reaches Redis only when the manager thinks *)
(* it healthy; a call that fails makes it unhealthy.                       *)
(***************************************************************************)

Reaches == healthy /\ linkUp

\* The locks under which ks are computed.
LocksOf(ks) == {reader[r].lock : r \in {s \in Readers :
                    /\ reader[s].pc \notin {"idle", "missed"}
                    /\ reader[s].key \in ks}}

DropEntries(ks) ==
    /\ redis' = [k \in Keys |-> IF k \in ks THEN NoEntry ELSE redis[k]]
    /\ computes' = [l \in LockIds |-> IF l \in LocksOf(ks) THEN 0 ELSE computes[l]]
    /\ lost' = lost \ ks

\* _defer_delete for each key in turn: a key that arrives when the set is
\* full is dropped and the overflow flag raised.
DeferDeletes(ks) ==
    \E kept \in SUBSET (ks \ pendingDeletes) :
        /\ pendingDeletes' = pendingDeletes \cup kept
        /\ Cardinality(pendingDeletes') <= PendingCap
        /\ Cardinality(pendingDeletes') < PendingCap => ks \subseteq pendingDeletes'
        /\ pendingOverflow' \in
             {pendingOverflow \/ (Cardinality(pendingDeletes') = PendingCap /\ ks # kept),
              pendingOverflow \/ ~(ks \subseteq pendingDeletes')
                              \/ Cardinality(pendingDeletes) = PendingCap}
        /\ UNCHANGED pendingPatterns

\* _defer_pattern
DeferPattern(p) ==
    /\ IF Cardinality(pendingPatterns) >= PendingCap
       THEN pendingOverflow' = TRUE /\ UNCHANGED pendingPatterns
       ELSE pendingPatterns' = pendingPatterns \cup {p} /\ UNCHANGED pendingOverflow
    /\ UNCHANGED pendingDeletes

\* Mutant: a failing delete only marks Redis as down.
DeleteManyForgets(ks) ==
    \/ Reaches /\ DropEntries(ks) /\ UNCHANGED <<healthy, pendingVars>>
    \/ healthy /\ ~linkUp /\ healthy' = FALSE /\ UNCHANGED <<redis, computes, lost, pendingVars>>
    \/ ~healthy /\ DeferDeletes(ks) /\ UNCHANGED <<healthy, redis, computes, lost>>

\* delete and delete_many
DeleteMany(ks) ==
    \/ Reaches /\ DropEntries(ks) /\ UNCHANGED <<healthy, pendingVars>>
    \/ ~Reaches /\ healthy' = FALSE /\ DeferDeletes(ks) /\ UNCHANGED <<redis, computes, lost>>

\* invalidate_pattern, the pattern given by the keys it matches
InvalidatePattern(p) ==
    \/ Reaches /\ DropEntries(p) /\ UNCHANGED <<healthy, pendingVars>>
    \/ ~Reaches /\ healthy' = FALSE /\ DeferPattern(p) /\ UNCHANGED <<redis, computes, lost>>

-----------------------------------------------------------------------------
(***************************************************************************)
(* Writers: commit, then safe_create_task(invalidate_..._cache(..)).       *)
(***************************************************************************)

\* Commits are numbered in order: a row's version is its last commit.
LastCommit == CHOOSE n \in 0..MaxWrites :
                 /\ \E k \in Keys : rowVersion[k] = n
                 /\ \A k \in Keys : rowVersion[k] <= n

\* Of the keys whose invalidation is forgotten, those that matter.
Forgotten(ks) == {k \in ks : redis[k] # NoEntry}

\* A committed write.  Without a manager the scheduled task does nothing.
CommitWrite(k) ==
    /\ LastCommit < MaxWrites
    /\ rowVersion' = [rowVersion EXCEPT ![k] = LastCommit + 1]
    /\ invalidations' = [invalidations EXCEPT ![k] = IF enabled THEN @ + 1 ELSE @]
    /\ lost' = IF enabled THEN lost ELSE lost \cup Forgotten({k})
    /\ UNCHANGED <<redis, healthy, pendingVars, replay, flightVars, computes, envVars>>

\* The background task runs.
RunInvalidation(k) ==
    /\ invalidations[k] > 0
    /\ invalidations' = [invalidations EXCEPT ![k] = @ - 1]
    /\ DeleteMany({k})
    /\ UNCHANGED <<rowVersion, replay, flightVars, envVars>>

\* The hourly and the daily sweep of the scheduler.
SchedulerSweep ==
    /\ enabled /\ Swept # {}
    /\ InvalidatePattern(Swept)
    /\ UNCHANGED <<rowVersion, invalidations, replay, flightVars, envVars>>

-----------------------------------------------------------------------------
(***************************************************************************)
(* single_flight(cache, key, compute, ttl).                                *)
(***************************************************************************)

\* The first read misses: no entry, an outage, or a manager that knows of it.
FlightGet(r, k) ==
    /\ <<r, k>> \in Calls /\ enabled /\ reader[r] = Idle
    /\ Reaches => redis[k] = NoEntry
    /\ healthy' = Reaches
    /\ reader' = [reader EXCEPT ![r] = [pc |-> "missed", key |-> k]]
    /\ UNCHANGED <<rowVersion, redis, invalidations, pendingVars, replay, flightLock,
                   computes, lost, envVars>>

LockTaken(l) == \E r \in Readers : /\ reader[r].pc \in {"locked", "computing", "computed"}
                                   /\ reader[r].lock = l
FreshLocks == LockIds \ {reader[r].lock : r \in
                {s \in Readers : reader[s].pc \notin {"idle", "missed"}}}

\* Find or create the key's lock and enter it if it is free.
FlightLock(r) ==
    /\ reader[r].pc = "missed"
    /\ LET k == reader[r].key
           l == IF flightLock[k] # NoLock THEN flightLock[k]
                ELSE CHOOSE n \in FreshLocks : TRUE
       IN  /\ flightLock' = [flightLock EXCEPT ![k] = l]
           /\ computes' = IF flightLock[k] = NoLock THEN [computes EXCEPT ![l] = 0] ELSE computes
           /\ reader' = [reader EXCEPT ![r] =
                 [pc |-> IF LockTaken(l) THEN "waiting" ELSE "locked", key |-> k, lock |-> l]]
    /\ UNCHANGED <<rowVersion, redis, healthy, invalidations, pendingVars, replay, lost, envVars>>

FlightWake(r) ==
    /\ reader[r].pc = "waiting" /\ ~LockTaken(reader[r].lock)
    /\ reader' = [reader EXCEPT ![r].pc = "locked"]
    /\ UNCHANGED <<rowVersion, redis, healthy, invalidations, pendingVars, replay, flightLock,
                   computes, lost, envVars>>

\* The finally clause: only the dictionary's own lock is removed from it.
FlightLeave(r) ==
    /\ reader' = [reader EXCEPT ![r] = Idle]
    /\ flightLock' = [k \in Keys |->
          IF k = reader[r].key /\ flightLock[k] = reader[r].lock THEN NoLock ELSE flightLock[k]]

\* Mutant: the caller that got the lock does not look again.
FlightRegetBlindly(r) ==
    /\ reader[r].pc = "locked"
    /\ healthy' = Reaches
    /\ reader' = [reader EXCEPT ![r].pc = "computing"] /\ UNCHANGED flightLock
    /\ UNCHANGED <<rowVersion, redis, invalidations, pendingVars, replay, computes, lost, envVars>>

\* Under the lock the entry is read again; a hit ends the call.
FlightReget(r) ==
    /\ reader[r].pc = "locked"
    /\ healthy' = Reaches
    /\ IF Reaches /\ redis[reader[r].key] # NoEntry
       THEN FlightLeave(r)
       ELSE reader' = [reader EXCEPT ![r].pc = "computing"] /\ UNCHANGED flightLock
    /\ UNCHANGED <<rowVersion, redis, invalidations, pendingVars, replay, computes, lost, envVars>>

\* compute() reads the database.
FlightCompute(r) ==
    /\ reader[r].pc = "computing"
    /\ LET k == reader[r].key
           l == reader[r].lock
       IN  /\ reader' = [reader EXCEPT ![r] =
                 [pc |-> "computed", key |-> k, lock |-> l, seen |-> rowVersion[k]]]
           /\ computes' = [computes EXCEPT ![l] = IF Reaches /\ rowVersion[k] > 0 THEN @ + 1 ELSE @]
    /\ UNCHANGED <<rowVersion, redis, healthy, invalidations, pendingVars, replay, flightLock,
                   lost, envVars>>

\* A result that is not None is stored, if Redis takes it.
FlightStore(r) ==
    /\ reader[r].pc = "computed"
    /\ LET k == reader[r].key
           v == reader[r].seen
       IN  /\ healthy' = IF v = 0 THEN healthy ELSE Reaches
           /\ redis' = IF v > 0 /\ Reaches
                       THEN [redis EXCEPT ![k] = [version |-> v, raced |-> v # rowVersion[k]]]
                       ELSE redis
           /\ lost' = IF v > 0 /\ Reaches THEN lost \ {k} ELSE lost
    /\ FlightLeave(r)
    /\ UNCHANGED <<rowVersion, invalidations, pendingVars, replay, computes, envVars>>

\* A time-to-live runs out in Redis.
ExpireEntry(k) ==
    /\ redis[k] # NoEntry
    /\ DropEntries({k})
    /\ UNCHANGED <<rowVersion, healthy, invalidations, pendingVars, replay, flightVars, envVars>>

-----------------------------------------------------------------------------
(***************************************************************************)
(* Outages, the health probe and its replay.                               *)
(***************************************************************************)

\* Redis goes away.  Results computed from here on may not be stored.
LinkDown ==
    /\ linkUp /\ outages < MaxOutages
    /\ linkUp' = FALSE /\ outages' = outages + 1
    /\ computes' = [l \in LockIds |-> 0]
    /\ UNCHANGED <<rowVersion, redis, enabled, healthy, invalidations, pendingVars, replay,
                   flightVars, lost, restarts>>

LinkBack ==
    /\ ~linkUp /\ linkUp' = TRUE
    /\ UNCHANGED <<rowVersion, redis, enabled, healthy, invalidations, pendingVars, replay,
                   flightVars, computes, lost, outages, restarts>>

\* Mutant: recovery turns the cache on again and replays only an overflow.
CheckHealthNoReplay ==
    /\ enabled /\ ~replay.running
    /\ healthy' = linkUp
    /\ IF linkUp /\ pendingOverflow
       THEN /\ replay' = [running |-> TRUE, deletes |-> {}, patterns |-> {{k} : k \in Known}]
            /\ pendingDeletes' = {} /\ pendingPatterns' = {} /\ pendingOverflow' = FALSE
       ELSE UNCHANGED <<replay, pendingVars>>
    /\ UNCHANGED <<rowVersion, redis, invalidations, flightVars, computes, lost, envVars>>

\* check_health and the first half of _replay_pending: the manager is healthy
\* from here on, the recorded sets are taken over; after an overflow every
\* known prefix stands for them.
CheckHealth ==
    /\ enabled /\ ~replay.running
    /\ healthy' = linkUp
    /\ IF linkUp /\ (~healthy \/ pendingDeletes # {} \/ pendingPatterns # {} \/ pendingOverflow)
       THEN /\ replay' = IF pendingOverflow
                         THEN [running |-> TRUE, deletes |-> {},
                               patterns |-> {{k} : k \in Known}]
                         ELSE [running |-> TRUE, deletes |-> pendingDeletes,
                               patterns |-> pendingPatterns]
            /\ pendingDeletes' = {} /\ pendingPatterns' = {} /\ pendingOverflow' = FALSE
       ELSE UNCHANGED <<replay, pendingVars>>
    /\ UNCHANGED <<rowVersion, redis, invalidations, flightVars, computes, lost, envVars>>

\* delete_many(deletes) first, then one pattern after another; the probe ends
\* with a write of its own, which may notice an outage.
ReplayStep ==
    /\ replay.running
    /\ \/ /\ replay.deletes # {}
          /\ DeleteMany(replay.deletes)
          /\ replay' = [replay EXCEPT !.deletes = {}]
       \/ /\ replay.deletes = {}
          /\ \E p \in replay.patterns :
                /\ InvalidatePattern(p)
                /\ replay' = [replay EXCEPT !.patterns = @ \ {p}]
       \/ /\ replay.deletes = {} /\ replay.patterns = {}
          /\ healthy' = Reaches
          /\ replay' = NoReplay
          /\ UNCHANGED <<redis, computes, lost, pendingVars>>
    /\ UNCHANGED <<rowVersion, invalidations, flightVars, envVars>>

-----------------------------------------------------------------------------
(***************************************************************************)
(* The end of the process.  Everything but Redis and the database is gone; *)
(* the new process has a cache manager only if Redis answers its ping.     *)
(***************************************************************************)

\* The invalidations recorded, or under way in a replay, for a key.
Recorded(k) ==
    \/ k \in pendingDeletes \cup UNION pendingPatterns
    \/ pendingOverflow
    \/ k \in replay.deletes \cup UNION replay.patterns

NewProcess ==
    /\ restarts < MaxRestarts /\ restarts' = restarts + 1
    /\ enabled' = linkUp /\ healthy' = TRUE
    /\ pendingDeletes' = {} /\ pendingPatterns' = {} /\ pendingOverflow' = FALSE
    /\ replay' = NoReplay
    /\ flightLock' = [k \in Keys |-> NoLock] /\ reader' = [r \in Readers |-> Idle]
    /\ computes' = [l \in LockIds |-> 0]
    /\ UNCHANGED <<rowVersion, redis, linkUp, outages>>

\* A kill loses the background tasks too.
KillBot ==
    /\ NewProcess
    /\ invalidations' = [k \in Keys |-> 0]
    /\ lost' = lost \cup Forgotten({k \in Keys : invalidations[k] > 0 \/ Recorded(k)})

\* A clean stop drains the background tasks first.
StopBot ==
    /\ \A k \in Keys : invalidations[k] = 0
    /\ NewProcess
    /\ UNCHANGED invalidations
    /\ lost' = lost \cup Forgotten({k \in Keys : Recorded(k)})

CacheNext ==
    \/ \E k \in Keys : CommitWrite(k) \/ RunInvalidation(k) \/ ExpireEntry(k)
    \/ SchedulerSweep
    \/ \E r \in Readers :
          \/ \E k \in Keys : FlightGet(r, k)
          \/ FlightLock(r) \/ FlightWake(r) \/ FlightReget(r) \/ FlightCompute(r)
          \/ FlightStore(r)
    \/ LinkDown \/ LinkBack \/ CheckHealth \/ ReplayStep
    \/ KillBot \/ StopBot

CacheSpec == CacheInit /\ [][CacheNext]_cacheVars

-----------------------------------------------------------------------------
(***************************************************************************)
(* Properties.                                                             *)
(***************************************************************************)

OnItsWay(k) == invalidations[k] > 0 \/ Recorded(k)

\* "Invalidations that failed while Redis was unavailable [are] replayed on
\* recovery so a committed DB write is never masked by a stale cache entry":
\* an entry that was right when it was stored is behind its row only while
\* an invalidation of it is scheduled, recorded or being replayed - through
\* outages noticed late, outages during the replay and overflows - unless the
\* process died in between.
NoMaskedWrite ==
    \A k \in Known \ lost :
        redis[k] # NoEntry /\ ~redis[k].raced /\ redis[k].version # rowVersion[k]
            => OnItsWay(k)

\* Callers that queue behind one lock compute a value at most once between two
\* losses of the entry: all but the first find it under the lock.
OneComputationPerLock == \A l \in LockIds : computes[l] <= 1

\* Once Redis stays reachable every invalidation is made: none is scheduled,
\* recorded or half replayed for ever.
InvalidationsLand == []<>(\A k \in Keys : ~OnItsWay(k))
=============================================================================
