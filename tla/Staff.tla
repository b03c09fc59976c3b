------------------------------- MODULE Staff -------------------------------
(***************************************************************************)
(* Roles and permissions: registration (bot/handlers/user/main.py), the    *)
(* role dialogs (bot/handlers/admin/role_management.py), the roles table   *)
(* and its seed (bot/database/models/main.py) and the methods under        *)
(* bot/database/methods that read and change them.                         *)
(*                                                                         *)
(* A permission bitmask is a set of bit numbers.  A dialog keeps what it   *)
(* read when it was opened: the caller's permissions are not read again.   *)
(* Assigning and deleting a role take several database transactions or     *)
(* statements, and other staff act between them.  Only the committed       *)
(* bitmasks are read here; RoleCache bounds how long a cached one is old.  *)
(***************************************************************************)
EXTENDS Naturals, FiniteSets

CONSTANTS
    People,         \* telegram ids
    Owner,          \* EnvKeys.OWNER_ID
    Manager,        \* the person who manages roles without owning the shop
    Bits,           \* permission bits in use
    AdminsManage,   \* Permission.ADMINS_MANAGE
    RoleIds,        \* ids the roles table may give out
    Names,          \* role names
    UserName, SuperName, LegacyName,    \* "USER", "SUPERADMIN", "OWNER"
    CustomName,     \* the name of the role that Manager holds
    MaxWork,        \* bound: dialogs, assignments and deletions begun
    Unregistered,   \* no users row
    NoRoleId,       \* role_id NULL
    NoRow, NoDialog, NoTask

ASSUME StaffAssumption ==
    /\ {Owner, Manager} \subseteq People /\ Owner # Manager
    /\ AdminsManage \in Bits /\ Bits \subseteq Nat
    /\ {1, 2, 3} \subseteq RoleIds /\ RoleIds \subseteq Nat
    /\ {UserName, SuperName, LegacyName, CustomName} \subseteq Names
    /\ Cardinality({UserName, SuperName, LegacyName, CustomName}) = 4
    /\ MaxWork \in Nat
    /\ {Unregistered, NoRoleId} \cap RoleIds = {} /\ Unregistered # NoRoleId
    /\ NoRow \notin [name : Names, perms : SUBSET Bits, default : BOOLEAN]

VARIABLES
    roles,          \* roles table: id -> name, permissions, default flag
    roleOf,         \* users.role_id
    roleDialog,     \* FSM state and data of each person's role dialog
    task,           \* a handler of this person between two of its statements
    staffUp,        \* the process is up
    work,           \* dialogs, assignments and deletions begun
    spread,         \* ghost: bits that someone who had them gave to a role or a
                    \* person, or took from a role
    firstHolders,   \* ghost: who held each bit at the start
    demoted         \* ghost: a restart has seeded role 1 as another built-in role

staffVars == <<roles, roleOf, roleDialog, task, staffUp, work, spread, firstHolders, demoted>>
ghosts == <<spread, firstHolders, demoted>>

Perms == SUBSET Bits
RoleRows == [name : Names, perms : Perms, default : BOOLEAN]
KnownRoles == {r \in RoleIds : roles[r] # NoRow}
Named(n) == {r \in KnownRoles : roles[r].name = n}

\* check_role: the join finds nothing for a user without a role.
PermsOf(p) == IF roleOf[p] \in KnownRoles THEN roles[roleOf[p]].perms ELSE {}

Holders(b) == {p \in People : b \in PermsOf(p)}

\* Roles, users and dialogs are well formed.
StaffTypeOK ==
    /\ roles \in [RoleIds -> {NoRow} \cup RoleRows]
    /\ roleOf \in [People -> RoleIds \cup {Unregistered, NoRoleId}]
    /\ \A p \in People : roleDialog[p] = NoDialog \/
          roleDialog[p].step \in {"newName", "newPerms", "editName", "editPerms"}
    /\ \A p \in People : task[p] = NoTask \/ task[p].kind \in {"assign", "delete", "flush"}
    /\ staffUp \in BOOLEAN /\ work \in 0..MaxWork
    /\ spread \in Perms /\ firstHolders \in [Bits -> SUBSET People] /\ demoted \in BOOLEAN

\* Role.insert_roles on an empty table, and one role made by the owner since.
StaffInit ==
    /\ roles = [r \in RoleIds |->
          CASE r = 1 -> [name |-> UserName, perms |-> {}, default |-> TRUE]
            [] r = 2 -> [name |-> SuperName, perms |-> Bits, default |-> FALSE]
            [] r = 3 -> [name |-> CustomName, perms |-> {AdminsManage}, default |-> FALSE]
            [] OTHER -> NoRow]
    /\ roleOf = [p \in People |-> CASE p = Owner -> 2 [] p = Manager -> 3 [] OTHER -> Unregistered]
    /\ roleDialog = [p \in People |-> NoDialog] /\ task = [p \in People |-> NoTask]
    /\ staffUp = TRUE /\ work = 0 /\ spread = {}
    /\ firstHolders = [b \in Bits |-> Holders(b)] /\ demoted = FALSE

-----------------------------------------------------------------------------
(***************************************************************************)
(* Registration                                                            *)
(***************************************************************************)

\* Permission bitmasks compare as numbers.
Heavier(p, q) == \E b \in p \ q : \A c \in q \ p : c < b
MaxRoleId == CHOOSE r \in KnownRoles : \A q \in KnownRoles : ~Heavier(roles[q].perms, roles[r].perms)

\* start and _ensure_user: only /start gives the owner the largest role; the
\* foreign key refuses a role that is not there.
Register(p) ==
    /\ staffUp /\ roleOf[p] = Unregistered
    /\ \E r \in {1} \cup (IF p = Owner THEN {MaxRoleId} ELSE {}) :
          /\ r \in KnownRoles
          /\ roleOf' = [roleOf EXCEPT ![p] = r]
    /\ UNCHANGED <<roles, roleDialog, task, staffUp, work, ghosts>>

-----------------------------------------------------------------------------
(***************************************************************************)
(* The role dialogs                                                        *)
(***************************************************************************)

\* HasPermissionFilter(ADMINS_MANAGE)
MayManage(p) == staffUp /\ AdminsManage \in PermsOf(p)
MayBegin(p) == MayManage(p) /\ work < MaxWork /\ work' = work + 1

\* role_management_handler: the list screen clears the dialog.
LeaveRoleDialog(p) ==
    /\ MayManage(p) /\ roleDialog[p] # NoDialog
    /\ roleDialog' = [roleDialog EXCEPT ![p] = NoDialog]
    /\ UNCHANGED <<roles, roleOf, task, staffUp, work, ghosts>>

\* role_create_start, and role_create_name: no filter guards the second.
StartCreate(p) ==
    /\ MayBegin(p) /\ roleDialog[p] = NoDialog
    /\ roleDialog' = [roleDialog EXCEPT ![p] = [step |-> "newName"]]
    /\ UNCHANGED <<roles, roleOf, task, staffUp, ghosts>>

NameNewRole(p, n) ==
    /\ staffUp /\ roleDialog[p] # NoDialog /\ roleDialog[p].step = "newName"
    /\ roleDialog' = [roleDialog EXCEPT ![p] =
          [step |-> "newPerms", name |-> n, perms |-> {}, caller |-> PermsOf(p)]]
    /\ UNCHANGED <<roles, roleOf, task, staffUp, work, ghosts>>

\* role_edit_start: the role must lie within what the caller has.
StartEdit(p, r) ==
    /\ MayBegin(p) /\ roleDialog[p] = NoDialog
    /\ r \in KnownRoles /\ roles[r].perms \subseteq PermsOf(p)
    /\ roleDialog' = [roleDialog EXCEPT ![p] =
          [step |-> "editName", role |-> r, name |-> roles[r].name,
           perms |-> roles[r].perms, caller |-> PermsOf(p)]]
    /\ UNCHANGED <<roles, roleOf, task, staffUp, ghosts>>

\* role_edit_name: /skip keeps the name that was read.
EditName(p, n) ==
    /\ staffUp /\ roleDialog[p] # NoDialog /\ roleDialog[p].step = "editName"
    /\ roleDialog' = [roleDialog EXCEPT ![p].step = "editPerms", ![p].name = n]
    /\ UNCHANGED <<roles, roleOf, task, staffUp, work, ghosts>>

\* _toggle_perm
TogglePerm(p, b) ==
    /\ staffUp /\ roleDialog[p] # NoDialog /\ roleDialog[p].step \in {"newPerms", "editPerms"}
    /\ b \in roleDialog[p].caller
    /\ roleDialog' = [roleDialog EXCEPT ![p].perms = IF b \in @ THEN @ \ {b} ELSE @ \cup {b}]
    /\ UNCHANGED <<roles, roleOf, task, staffUp, work, ghosts>>

FirstFree(ids) == CHOOSE r \in ids : \A q \in ids : r <= q

\* create_role: the next id, unless the name is taken.
CreateRole(d) ==
    IF Named(d.name) # {} THEN roles
    ELSE [roles EXCEPT ![FirstFree(RoleIds \ KnownRoles)] =
             [name |-> d.name, perms |-> d.perms, default |-> FALSE]]

\* update_role: under the row's lock; the row may be gone, the name taken.
UpdateRole(d) ==
    IF d.role \notin KnownRoles \/ Named(d.name) \ {d.role} # {} THEN roles
    ELSE [roles EXCEPT ![d.role].name = d.name, ![d.role].perms = d.perms]

\* The bits a role has before or after the dialog.
Touched(d) == d.perms \cup (IF d.step = "editPerms" /\ d.role \in KnownRoles
                            THEN roles[d.role].perms ELSE {})

\* _perms_done: the dialog is cleared, then the role is written.
PermsDone(p) ==
    LET d == roleDialog[p] IN
    /\ staffUp /\ d # NoDialog /\ d.step \in {"newPerms", "editPerms"}
    /\ d.perms \subseteq d.caller
    /\ d.step = "newPerms" => RoleIds \ KnownRoles # {}
    /\ roleDialog' = [roleDialog EXCEPT ![p] = NoDialog]
    /\ roles' = IF d.step = "newPerms" THEN CreateRole(d) ELSE UpdateRole(d)
    /\ spread' = spread \cup (d.caller \cap Touched(d))
    /\ UNCHANGED <<roleOf, task, staffUp, work, firstHolders, demoted>>

-----------------------------------------------------------------------------
(***************************************************************************)
(* Assigning a role                                                        *)
(***************************************************************************)

\* Mutant: the list offers only lesser roles, the confirmation takes any.
AssignCheckAny(p, r, t) ==
    /\ MayBegin(p) /\ task[p] = NoTask
    /\ r \in KnownRoles
    /\ roleOf[t] \in KnownRoles /\ roles[roleOf[t]].name \notin {SuperName, LegacyName}
    /\ task' = [task EXCEPT ![p] = [kind |-> "assign", role |-> r, user |-> t]]
    /\ spread' = spread \cup (roles[r].perms \cap PermsOf(p))
    /\ UNCHANGED <<roles, roleOf, roleDialog, staffUp, firstHolders, demoted>>

\* assign_role_confirm: what it reads first.  A user without a role makes
\* check_role_name_by_id raise.
AssignCheck(p, r, t) ==
    /\ MayBegin(p) /\ task[p] = NoTask
    /\ r \in KnownRoles /\ roles[r].perms \subseteq PermsOf(p)
    /\ roleOf[t] \in KnownRoles /\ roles[roleOf[t]].name \notin {SuperName, LegacyName}
    /\ task' = [task EXCEPT ![p] = [kind |-> "assign", role |-> r, user |-> t]]
    /\ spread' = spread \cup (roles[r].perms \cap PermsOf(p))
    /\ UNCHANGED <<roles, roleOf, roleDialog, staffUp, firstHolders, demoted>>

\* set_role: the foreign key refuses a role that is gone by now.
AssignCommit(p) ==
    /\ staffUp /\ task[p] # NoTask /\ task[p].kind = "assign"
    /\ roleOf' = IF task[p].role \in KnownRoles
                 THEN [roleOf EXCEPT ![task[p].user] = task[p].role] ELSE roleOf
    /\ task' = [task EXCEPT ![p] = NoTask]
    /\ UNCHANGED <<roles, roleDialog, staffUp, work, ghosts>>

-----------------------------------------------------------------------------
(***************************************************************************)
(* Deleting a role                                                         *)
(***************************************************************************)

\* role_delete_confirm and delete_role up to the count of its users.
DeleteCheck(p, r) ==
    /\ MayBegin(p) /\ task[p] = NoTask
    /\ r \in KnownRoles /\ roles[r].perms \subseteq PermsOf(p)
    /\ ~roles[r].default /\ roles[r].name \notin {UserName, SuperName}
    /\ \A q \in People : roleOf[q] # r
    /\ task' = [task EXCEPT ![p] = [kind |-> "delete", role |-> r]]
    /\ UNCHANGED <<roles, roleOf, roleDialog, staffUp, ghosts>>

\* The flush loads the role's users: Role.users has no passive_deletes, so
\* the ORM takes the role away from those it finds.
DeleteLoad(p) ==
    /\ staffUp /\ task[p] # NoTask /\ task[p].kind = "delete"
    /\ task' = [task EXCEPT ![p] = [kind |-> "flush", role |-> task[p].role,
          members |-> {q \in People : roleOf[q] = task[p].role}]]
    /\ UNCHANGED <<roles, roleOf, roleDialog, staffUp, work, ghosts>>

\* Mutant: the foreign key does not restrict.
DeleteFlushUnchecked(p) ==
    /\ staffUp /\ task[p] # NoTask /\ task[p].kind = "flush"
    /\ roleOf' = [q \in People |-> IF q \in task[p].members THEN NoRoleId ELSE roleOf[q]]
    /\ roles' = [roles EXCEPT ![task[p].role] = NoRow]
    /\ task' = [task EXCEPT ![p] = NoTask]
    /\ UNCHANGED <<roleDialog, staffUp, work, ghosts>>

\* The flush and the commit; the foreign key (RESTRICT) undoes both when the
\* role has got a user since.
DeleteFlush(p) ==
    /\ staffUp /\ task[p] # NoTask /\ task[p].kind = "flush"
    /\ IF \E q \in People \ task[p].members : roleOf[q] = task[p].role
       THEN UNCHANGED <<roles, roleOf>>
       ELSE /\ roleOf' = [q \in People |-> IF q \in task[p].members THEN NoRoleId ELSE roleOf[q]]
            /\ roles' = [roles EXCEPT ![task[p].role] = NoRow]
    /\ task' = [task EXCEPT ![p] = NoTask]
    /\ UNCHANGED <<roleDialog, staffUp, work, ghosts>>

-----------------------------------------------------------------------------
(***************************************************************************)
(* Restart                                                                 *)
(***************************************************************************)

\* Role.insert_roles: a seeded role is found by its name or takes the next id,
\* and gets its permissions and default flag again.
Seeded(n, free) == IF Named(n) # {} THEN CHOOSE r \in Named(n) : TRUE ELSE FirstFree(free)

InsertRoles ==
    LET userId  == Seeded(UserName, RoleIds \ KnownRoles)
        superId == Seeded(SuperName, RoleIds \ (KnownRoles \cup {userId}))
    IN  [roles EXCEPT ![userId] = [name |-> UserName, perms |-> {}, default |-> TRUE],
                      ![superId] = [name |-> SuperName, perms |-> Bits, default |-> FALSE]]

\* A new process.  A role called OWNER is renamed to SUPERADMIN in memory
\* only (the session does not autoflush), so the search by that name does not
\* see it, and at the commit two rows claim the name: startup fails.
RestartStaff ==
    /\ staffUp
    /\ Cardinality(RoleIds \ KnownRoles) >=
          Cardinality({n \in {UserName, SuperName} : Named(n) = {}})
    /\ roleDialog' = [p \in People |-> NoDialog] /\ task' = [p \in People |-> NoTask]
    /\ IF Named(LegacyName) = {} THEN roles' = InsertRoles /\ staffUp' = TRUE
       ELSE staffUp' = FALSE /\ UNCHANGED roles
    /\ demoted' = (demoted \/ (1 \in KnownRoles /\ roles[1].default /\ ~roles'[1].default))
    /\ UNCHANGED <<roleOf, work, spread, firstHolders>>

StaffNext ==
    \/ RestartStaff
    \/ \E p \in People :
          \/ Register(p) \/ LeaveRoleDialog(p) \/ StartCreate(p) \/ PermsDone(p)
          \/ AssignCommit(p) \/ DeleteLoad(p) \/ DeleteFlush(p)
          \/ \E n \in Names : NameNewRole(p, n) \/ EditName(p, n)
          \/ \E b \in Bits : TogglePerm(p, b)
          \/ \E r \in RoleIds : StartEdit(p, r) \/ DeleteCheck(p, r)
          \/ \E r \in RoleIds, t \in People : AssignCheck(p, r, t)

StaffSpec == StaffInit /\ [][StaffNext]_staffVars

-----------------------------------------------------------------------------
\* Nobody comes by a permission that no holder of it gave to anyone or took
\* from a role (a restart gives it back to a seeded role), through any
\* sequence of role edits, renames, assignments, deletions and restarts by
\* people who lack it: a dialog works with permissions it read long ago and an
\* assignment with a role that has changed since.
NoEscalation == \A b \in Bits \ spread : Holders(b) \subseteq firstHolders[b]

\* A role never goes and leaves its users behind: a user's role exists, or the
\* deletion that raced its assignment took it from the user; and role 1, which
\* every registration hard-codes, stays, even renamed out of the protected
\* names and emptied. Left out: a restart that finds role 1 under the name of
\* another built-in role takes its default flag, and with it the protection.
RolesStand ==
    /\ demoted \/ 1 \in KnownRoles
    /\ \A p \in People : roleOf[p] \in KnownRoles \cup {NoRoleId, Unregistered}

\* "Renames legacy OWNER -> SUPERADMIN": startup seeds the roles whatever
\* names they have been given.
SeedingSucceeds == staffUp

\* "Fails if users are assigned": deleting a role takes it from nobody.
DeleteSparesUsers == \A p \in People : roleOf[p] # NoRoleId
=============================================================================
