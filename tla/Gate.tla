-------------------------------- MODULE Gate --------------------------------
(***************************************************************************)
(* The authentication middleware's own state (bot/middleware/security.py): *)
(* the in-memory set of blocked users, seen here for one user, and         *)
(* maintenance mode, with the startup that loads them (bot/main.py), the   *)
(* handlers that change them (bot/handlers/admin/user_management.py and    *)
(* main.py) and the web panel's hook.                                      *)
(***************************************************************************)
EXTENDS Naturals

CONSTANTS
    Editors,        \* block_user / unblock_user calls and panel edits
    Loaders,        \* _load_blocked_set calls: startup and updates
    MaxEdits,       \* bound: changes of the block flag
    MaxModeFlips,   \* bound: changes of maintenance mode
    MaxBoots,       \* bound: restarts
    NoEdit, NoLoad, NoMode

ASSUME GateAssumption ==
    /\ MaxEdits \in Nat /\ MaxModeFlips \in Nat /\ MaxBoots \in Nat
    /\ {NoEdit, NoLoad, NoMode} \cap BOOLEAN = {}

VARIABLES
    dbBlocked,      \* users.is_blocked
    inSet,          \* user.id in blocked_users
    loadedSet,      \* _blocked_loaded
    load,           \* per loader: what get_blocked_user_ids returned
    edit,           \* per editor: the value committed and not yet applied
    gateDb,         \* the database answers
    maintenance,    \* _maintenance_mode
    savedMode,      \* bot:maintenance_mode in Redis
    saving,         \* the cache.set tasks scheduled, newest value last
    boot,           \* "models", "restore", "caching", "serving"
    edits, flips, boots,
    crossed         \* ghost: a change was committed between another change or a
                    \* load and its effect on the set

gateVars == <<dbBlocked, inSet, loadedSet, load, edit, gateDb, maintenance,
              savedMode, saving, boot, edits, flips, boots, crossed>>
blockVars == <<dbBlocked, inSet, loadedSet, load, edit, crossed>>
modeVars == <<maintenance, savedMode, saving>>

\* The middleware's state is well formed.
GateTypeOK ==
    /\ {dbBlocked, inSet, loadedSet, gateDb, maintenance, crossed} \subseteq BOOLEAN
    /\ load \in [Loaders -> BOOLEAN \cup {NoLoad}] /\ edit \in [Editors -> BOOLEAN \cup {NoEdit}]
    /\ savedMode \in BOOLEAN \cup {NoMode} /\ saving \in BOOLEAN \cup {NoMode}
    /\ boot \in {"models", "restore", "caching", "serving"}
    /\ edits \in 0..MaxEdits /\ flips \in 0..MaxModeFlips /\ boots \in 0..MaxBoots

GateInit ==
    /\ dbBlocked \in BOOLEAN /\ gateDb = TRUE
    /\ inSet = FALSE /\ loadedSet = FALSE /\ crossed = FALSE
    /\ load = [l \in Loaders |-> NoLoad] /\ edit = [e \in Editors |-> NoEdit]
    /\ maintenance = FALSE /\ savedMode = NoMode /\ saving = NoMode
    /\ boot = "models" /\ edits = 0 /\ flips = 0 /\ boots = 0

-----------------------------------------------------------------------------
(***************************************************************************)
(* The blocked set                                                         *)
(***************************************************************************)

\* _load_blocked_set: the startup calls it once, __call__ whenever the set is
\* not loaded yet.
BeginLoad(l) ==
    /\ gateDb /\ load[l] = NoLoad
    /\ boot = "models" \/ (boot = "serving" /\ ~loadedSet)
    /\ load' = [load EXCEPT ![l] = dbBlocked]
    /\ UNCHANGED <<dbBlocked, inSet, loadedSet, edit, crossed, gateDb, modeVars, boot, edits, flips, boots>>

EndLoad(l) ==
    /\ load[l] # NoLoad
    /\ inSet' = load[l] /\ loadedSet' = TRUE
    /\ load' = [load EXCEPT ![l] = NoLoad]
    /\ UNCHANGED <<dbBlocked, edit, crossed, gateDb, modeVars, boot, edits, flips, boots>>

InFlight == (\E l \in Loaders : load[l] # NoLoad) \/ (\E e \in Editors : edit[e] # NoEdit)

\* block_user, unblock_user and the panel's on_model_change: the commit.
CommitEdit(e, v) ==
    /\ boot = "serving" /\ gateDb /\ edit[e] = NoEdit /\ edits < MaxEdits
    /\ edits' = edits + 1
    /\ dbBlocked' = v /\ edit' = [edit EXCEPT ![e] = v]
    /\ crossed' = (crossed \/ InFlight)
    /\ UNCHANGED <<inSet, loadedSet, load, gateDb, modeVars, boot, flips, boots>>

\* Mutant: unblocking forgets the set.
ApplyEditAddOnly(e) ==
    /\ edit[e] # NoEdit
    /\ inSet' = (inSet \/ edit[e])
    /\ edit' = [edit EXCEPT ![e] = NoEdit]
    /\ UNCHANGED <<dbBlocked, loadedSet, load, crossed, gateDb, modeVars, boot, edits, flips, boots>>

\* ... and then add or discard; the set need not be loaded for that.
ApplyEdit(e) ==
    /\ edit[e] # NoEdit
    /\ inSet' = edit[e]
    /\ edit' = [edit EXCEPT ![e] = NoEdit]
    /\ UNCHANGED <<dbBlocked, loadedSet, load, crossed, gateDb, modeVars, boot, edits, flips, boots>>

\* The gate's verdict: the set once it is loaded, the database before.
Barred == IF loadedSet THEN inSet ELSE gateDb /\ dbBlocked

-----------------------------------------------------------------------------
(***************************************************************************)
(* Maintenance mode                                                        *)
(***************************************************************************)

\* toggle_maintenance_handler and the setter, which schedules the save.
ToggleMaintenance ==
    /\ boot = "serving" /\ flips < MaxModeFlips /\ flips' = flips + 1
    /\ maintenance' = ~maintenance /\ saving' = ~maintenance
    /\ UNCHANGED <<blockVars, gateDb, savedMode, boot, edits, boots>>

SaveMode ==
    /\ saving # NoMode /\ savedMode' = saving /\ saving' = NoMode
    /\ UNCHANGED <<blockVars, gateDb, maintenance, boot, edits, flips, boots>>

-----------------------------------------------------------------------------
(***************************************************************************)
(* Startup                                                                 *)
(***************************************************************************)

\* load_blocked_users after its load, successful or not.
EndLoading ==
    /\ boot = "models" /\ \A l \in Loaders : load[l] = NoLoad
    /\ loadedSet \/ ~gateDb
    /\ boot' = "restore"
    /\ UNCHANGED <<blockVars, gateDb, modeVars, edits, flips, boots>>

\* get_cache_manager() returns a manager once _setup_caching has run.
CacheManagerMade == boot = "serving"

\* load_blocked_users restores the mode through the cache manager; _startup
\* makes that manager only afterwards.
RestoreMode ==
    /\ boot = "restore" /\ boot' = "caching"
    /\ maintenance' = IF CacheManagerMade /\ savedMode # NoMode THEN savedMode ELSE maintenance
    /\ UNCHANGED <<blockVars, gateDb, savedMode, saving, edits, flips, boots>>

SetupCaching ==
    /\ boot = "caching" /\ boot' = "serving"
    /\ UNCHANGED <<blockVars, gateDb, modeVars, edits, flips, boots>>

RestartGate ==
    /\ boot = "serving" /\ boots < MaxBoots /\ boots' = boots + 1
    /\ inSet' = FALSE /\ loadedSet' = FALSE /\ crossed' = FALSE
    /\ load' = [l \in Loaders |-> NoLoad] /\ edit' = [e \in Editors |-> NoEdit]
    /\ maintenance' = FALSE /\ saving' = NoMode /\ boot' = "models"
    /\ UNCHANGED <<dbBlocked, gateDb, savedMode, edits, flips>>

GateDbUpDown ==
    /\ gateDb' = ~gateDb
    /\ UNCHANGED <<blockVars, modeVars, boot, edits, flips, boots>>

GateNext ==
    \/ \E l \in Loaders : BeginLoad(l) \/ EndLoad(l)
    \/ \E e \in Editors : ApplyEdit(e) \/ \E v \in BOOLEAN : CommitEdit(e, v)
    \/ ToggleMaintenance \/ SaveMode \/ EndLoading \/ RestoreMode \/ SetupCaching
    \/ RestartGate \/ GateDbUpDown

GateSpec == GateInit /\ [][GateNext]_gateVars

-----------------------------------------------------------------------------
\* "every block/unblock in this process keeps the set current": once the set
\* is loaded and no change waits to be applied, the gate bars a user exactly
\* if the database says so, unless two changes, or a change and a load, have
\* crossed since the process started.
BlockListAgrees ==
    loadedSet /\ ~crossed /\ ~InFlight => (Barred <=> dbBlocked)

\* "Restore maintenance mode from Redis": a bot that has started is in the
\* mode that was saved, when no later change is still to be saved.
MaintenanceSurvives ==
    boot = "serving" /\ saving = NoMode /\ savedMode # NoMode => maintenance = savedMode
=============================================================================
