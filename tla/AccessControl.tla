--------------------------- MODULE AccessControl ---------------------------
(***************************************************************************)
(* Administration of roles, permissions, the role matrix, role members and *)
(* per-user exceptions (permission.service.ts, access.service.ts,          *)
(* user-permissions.service.ts), with the in-memory caches every request   *)
(* is decided on (core/permissions). Each request validates on reads,      *)
(* commits one transaction later, and then reloads the caches with queries *)
(* whose answers may arrive after another request has moved on.            *)
(***************************************************************************)
EXTENDS AccessRules

CONSTANTS
    Roles,        \* keys of the role catalogue
    SystemRoles,  \* the protected ones
    Permissions,  \* keys of the permission catalogue
    Manage,       \* roles.manage
    Sensitive,    \* permissions marked sensitive
    Users,
    Requests,     \* requests that may be in flight at the same time
    MaxOps        \* bound on the number of administrative requests

ASSUME AccessAssumption ==
    /\ SystemRoles \subseteq Roles
    /\ SystemRoles # {}    \* the seed installs ADMIN
    /\ Manage \in Permissions
    /\ Sensitive \subseteq Permissions
    /\ MaxOps \in Nat

VARIABLES
    roleRow,    \* roles
    permRow,    \* permissions
    cell,       \* role_permissions; a missing row and a NONE row are the same
    mainRole, extraRoles,   \* users.role, user_roles
    grant,      \* user_permissions; an expired row stays until it is removed
    cache,      \* catalog.ts, roles.ts, matrix.ts
    req,        \* requests in flight
    ops,        \* number of requests begun
    raced,      \* history: two requests have been in flight together
    overlap     \* history: ... since the last reload that began alone

dbVars == <<roleRow, permRow, cell, mainRole, extraRoles, grant>>
accessVars == <<dbVars, cache, req, ops, raced, overlap>>

Statuses == {"absent", "active", "inactive"}
Idle == [pc |-> "idle"]
NoCells == [p \in Permissions |-> "NONE"]
Unset == [scope |-> "unset", current |-> FALSE]

TypeOK ==
    /\ roleRow \in [Roles -> Statuses]
    /\ permRow \in [Permissions -> [status : Statuses, scopes : SUBSET SCOPES]]
    /\ cell \in [Roles -> [Permissions -> SCOPES]]
    /\ mainRole \in [Users -> Roles]
    /\ extraRoles \in [Users -> SUBSET Roles]
    /\ grant \in [Users -> [Permissions -> {Unset} \cup [scope : SCOPES, current : BOOLEAN]]]
    /\ cache.roles \subseteq cache.known /\ cache.known \subseteq Roles
    /\ cache.keys \subseteq Permissions
    /\ cache.matrix \in [Roles -> [Permissions -> SCOPES]]

ActiveRoles == {r \in Roles : roleRow[r] = "active"}
KnownRoles == {r \in Roles : roleRow[r] # "absent"}
ActiveKeys == {p \in Permissions : permRow[p].status = "active"}

(* What loadMatrixFromDb selects: cells of active roles and permissions.   *)
ActiveCells ==
    [r \in Roles |-> [p \in Permissions |->
        IF r \in ActiveRoles /\ p \in ActiveKeys THEN cell[r][p] ELSE "NONE"]]

ScopesOfRows == [p \in Permissions |-> permRow[p].scopes]

(* matrixFromRows drops the keys outside the catalogue that is cached.     *)
MatrixFromRows(rows, keys) ==
    [r \in Roles |-> [p \in Permissions |-> IF p \in keys THEN rows[r][p] ELSE "NONE"]]

CacheOfRows ==
    [roles |-> ActiveRoles, known |-> KnownRoles, keys |-> ActiveKeys,
     scopes |-> ScopesOfRows, matrix |-> MatrixFromRows(ActiveCells, ActiveKeys)]

(***************************************************************************)
(* Decisions taken on the caches and on a fresh read of the user.          *)
(***************************************************************************)
UserOf(u) ==
    [id |-> u, role |-> mainRole[u], roles |-> extraRoles[u], departmentId |-> Nobody,
     exceptions |-> {[permission |-> p, scope |-> grant[u][p].scope, current |-> TRUE] :
                        p \in {q \in Permissions : grant[u][q].current}}]

EffectiveScope(u, p) == ScopeOf(UserOf(u), p, cache.keys, cache.matrix)

(* authenticate and requiresPermission, as a request meets them.           *)
Admitted(u, p) == RequiresPermission(UserOf(u), p, cache.keys, cache.matrix)

(* The console: the scope is asked for active permissions only.            *)
Simulated(u, p) ==
    LET permissionActive == p \in cache.keys
        scope == IF permissionActive THEN EffectiveScope(u, p) ELSE "NONE"
    IN  scope # "NONE"

(* The user's page lists the active catalogue, and hands expired rows to    *)
(* scopeOf as well.                                                        *)
PermissionView(u) ==
    LET subject == [UserOf(u) EXCEPT !.exceptions =
                      {[permission |-> p, scope |-> grant[u][p].scope, current |-> grant[u][p].current] :
                          p \in {q \in Permissions : grant[u][q] # Unset}}]
    IN  [p \in cache.keys |->
           [roleScope |-> RolesScopeOf(RolesOf(subject), p, cache.matrix),
            exception |-> grant[u][p],
            effective |-> ScopeOf(subject, p, cache.keys, cache.matrix)]]

(***************************************************************************)
(* Validation of each request, on the reads it makes before its write.     *)
(***************************************************************************)
SomeRoleKeepsManage(removed) == \E r \in ActiveRoles \ removed : cell[r][Manage] # "NONE"

HasRole(u, r) == mainRole[u] = r \/ r \in extraRoles[u]

ValidCreateRole(op) ==
    roleRow[op.role] = "absent" /\ (op.copyFrom \in Roles => roleRow[op.copyFrom] # "absent")

ValidUpdateRole(op) ==
    /\ op.role \notin SystemRoles
    /\ op.active \/ SomeRoleKeepsManage({op.role})

ValidDeleteRole(op) ==
    /\ roleRow[op.role] # "absent"
    /\ op.role \notin SystemRoles
    /\ \A u \in Users : ~HasRole(u, op.role)
    /\ SomeRoleKeepsManage({op.role})

ValidCreateCatalog(op) == permRow[op.permission].status = "absent"

(* status and scopes are optional fields: "keep" and {} stand for absent.   *)
ValidUpdateCatalog(op) ==
    /\ permRow[op.permission].status # "absent"
    /\ op.scopes # {} => \A r \in Roles : cell[r][op.permission] \in op.scopes \cup {"NONE"}
    /\ op.scopes # {} \/ op.status # "keep"

(* Mutant: a batch that leaves nobody with roles.manage is accepted.       *)
ValidSaveMatrixUnchecked(op) ==
    \A c \in op.changes :
      /\ c.role \in cache.roles
      /\ c.permission \in ActiveKeys
      /\ c.scope \in permRow[c.permission].scopes \cup {"NONE"}

ValidSaveMatrix(op) ==
    /\ \A c \in op.changes :
         /\ c.role \in cache.roles
         /\ c.permission \in ActiveKeys
         /\ c.scope \in permRow[c.permission].scopes \cup {"NONE"}
    /\ LET removed == {c.role : c \in {d \in op.changes : d.permission = Manage /\ d.scope = "NONE"}}
       IN  removed # {} => SomeRoleKeepsManage(removed)

ValidAddMember(op) == op.role \in cache.roles /\ ~HasRole(op.user, op.role)

ValidRemoveMember(op) == mainRole[op.user] # op.role /\ op.role \in extraRoles[op.user]

ValidUpdateUser(op) == {op.role} \cup op.roles \subseteq cache.roles

ValidSetException(op) ==
    /\ op.actor # op.user
    /\ op.permission \in cache.keys
    /\ op.scope \in cache.scopes[op.permission] \cup {"NONE"}
    /\ op.permission \in Sensitive => EffectiveScope(op.actor, op.permission) = "ALL"

ValidRemoveException(op) == grant[op.user][op.permission] # Unset

Valid(op) ==
    CASE op.kind = "createRole"      -> ValidCreateRole(op)
      [] op.kind = "updateRole"      -> ValidUpdateRole(op)
      [] op.kind = "deleteRole"      -> ValidDeleteRole(op)
      [] op.kind = "createCatalog"   -> ValidCreateCatalog(op)
      [] op.kind = "updateCatalog"   -> ValidUpdateCatalog(op)
      [] op.kind = "saveMatrix"      -> ValidSaveMatrix(op)
      [] op.kind = "addMember"       -> ValidAddMember(op)
      [] op.kind = "removeMember"    -> ValidRemoveMember(op)
      [] op.kind = "updateUser"      -> ValidUpdateUser(op)
      [] op.kind = "setException"    -> ValidSetException(op)
      [] op.kind = "removeException" -> ValidRemoveException(op)
      [] op.kind = "reload"          -> TRUE

(***************************************************************************)
(* The transactions, and what the database itself enforces when they run:  *)
(* unique keys, the row to update, foreign keys (users.role restricts the  *)
(* deletion of a role).                                                    *)
(***************************************************************************)
DatabaseAccepts(op) ==
    CASE op.kind = "createRole"    -> roleRow[op.role] = "absent"
      [] op.kind = "updateRole"    -> roleRow[op.role] # "absent"
      [] op.kind = "deleteRole"    -> /\ roleRow[op.role] # "absent"
                                      /\ \A u \in Users : mainRole[u] # op.role
      [] op.kind = "createCatalog" -> permRow[op.permission].status = "absent"
      [] op.kind = "saveMatrix"    -> \A c \in op.changes : roleRow[c.role] # "absent"
      [] op.kind = "addMember"     -> /\ op.role \notin extraRoles[op.user]
                                      /\ roleRow[op.role] # "absent"
      [] op.kind = "removeMember"  -> op.role \in extraRoles[op.user]
      [] op.kind = "updateUser"    -> \A r \in {op.role} \cup op.roles : roleRow[r] # "absent"
      [] op.kind = "removeException" -> grant[op.user][op.permission] # Unset
      [] OTHER -> TRUE

CreateRole(op) ==
    /\ roleRow' = [roleRow EXCEPT ![op.role] = "active"]
    /\ cell' = [cell EXCEPT ![op.role] = IF op.copyFrom \in Roles THEN cell[op.copyFrom] ELSE NoCells]
    /\ UNCHANGED <<permRow, mainRole, extraRoles, grant>>

UpdateRole(op) ==
    /\ roleRow' = [roleRow EXCEPT ![op.role] = IF op.active THEN "active" ELSE "inactive"]
    /\ UNCHANGED <<permRow, cell, mainRole, extraRoles, grant>>

(* Cells and extra roles cascade with the role.                            *)
DeleteRole(op) ==
    /\ roleRow' = [roleRow EXCEPT ![op.role] = "absent"]
    /\ cell' = [cell EXCEPT ![op.role] = NoCells]
    /\ extraRoles' = [u \in Users |-> extraRoles[u] \ {op.role}]
    /\ UNCHANGED <<permRow, mainRole, grant>>

CreateCatalog(op) ==
    /\ permRow' = [permRow EXCEPT ![op.permission] = [status |-> "active", scopes |-> op.scopes]]
    /\ UNCHANGED <<roleRow, cell, mainRole, extraRoles, grant>>

UpdateCatalog(op) ==
    /\ permRow' = [permRow EXCEPT
                     ![op.permission].status = IF op.status = "keep" THEN @ ELSE op.status,
                     ![op.permission].scopes = IF op.scopes = {} THEN @ ELSE op.scopes]
    /\ UNCHANGED <<roleRow, cell, mainRole, extraRoles, grant>>

SaveMatrix(op) ==
    /\ cell' = [r \in Roles |-> [p \in Permissions |->
                  LET mine == {c \in op.changes : c.role = r /\ c.permission = p}
                  IN  IF mine = {} THEN cell[r][p] ELSE (CHOOSE c \in mine : TRUE).scope]]
    /\ UNCHANGED <<roleRow, permRow, mainRole, extraRoles, grant>>

AddRoleMember(op) ==
    /\ extraRoles' = [extraRoles EXCEPT ![op.user] = @ \cup {op.role}]
    /\ UNCHANGED <<roleRow, permRow, cell, mainRole, grant>>

RemoveRoleMember(op) ==
    /\ extraRoles' = [extraRoles EXCEPT ![op.user] = @ \ {op.role}]
    /\ UNCHANGED <<roleRow, permRow, cell, mainRole, grant>>

(* PUT /users/:id with role and roles: the extras replace the current ones *)
(* and never repeat the main role.                                         *)
UpdateUserRoles(op) ==
    /\ mainRole' = [mainRole EXCEPT ![op.user] = op.role]
    /\ extraRoles' = [extraRoles EXCEPT ![op.user] = op.roles \ {op.role}]
    /\ UNCHANGED <<roleRow, permRow, cell, grant>>

SetException(op) ==
    /\ grant' = [grant EXCEPT ![op.user][op.permission] = [scope |-> op.scope, current |-> TRUE]]
    /\ UNCHANGED <<roleRow, permRow, cell, mainRole, extraRoles>>

RemoveException(op) ==
    /\ grant' = [grant EXCEPT ![op.user][op.permission] = Unset]
    /\ UNCHANGED <<roleRow, permRow, cell, mainRole, extraRoles>>

Transaction(op) ==
    \/ op.kind = "createRole"      /\ CreateRole(op)
    \/ op.kind = "updateRole"      /\ UpdateRole(op)
    \/ op.kind = "deleteRole"      /\ DeleteRole(op)
    \/ op.kind = "createCatalog"   /\ CreateCatalog(op)
    \/ op.kind = "updateCatalog"   /\ UpdateCatalog(op)
    \/ op.kind = "saveMatrix"      /\ SaveMatrix(op)
    \/ op.kind = "addMember"       /\ AddRoleMember(op)
    \/ op.kind = "removeMember"    /\ RemoveRoleMember(op)
    \/ op.kind = "updateUser"      /\ UpdateUserRoles(op)
    \/ op.kind = "setException"    /\ SetException(op)
    \/ op.kind = "removeException" /\ RemoveException(op)
    \/ op.kind = "reload"          /\ UNCHANGED dbVars

(* Mutant: a role that is deactivated stays in the caches.                 *)
ReloadsButRoles(op) == op.kind \notin
    {"updateRole", "addMember", "removeMember", "updateUser", "setException", "removeException"}

(* Roles, catalogue and matrix are cached; members and exceptions are read *)
(* by every request.                                                       *)
Reloads(op) == op.kind \notin
    {"addMember", "removeMember", "updateUser", "setException", "removeException"}

(***************************************************************************)
(* The bodies the API accepts, and the life of a request.                  *)
(***************************************************************************)
CONSTANTS
    ScopeChoices,  \* sets of scopes a permission may be declared with
    CellScopes,    \* scopes written into cells and exceptions
    Batches        \* sets of changes one save of the matrix brings

Changes == [role : Roles, permission : Permissions, scope : CellScopes]

(* A scope of the matrix is declared by some permission; an empty batch and *)
(* an empty list of scopes are refused.                                    *)
ASSUME BodiesAssumption ==
    /\ CellScopes \subseteq SCOPES
    /\ ScopeChoices \subseteq (SUBSET SCOPES) \ {{}}
    /\ "ALL" \in UNION ScopeChoices
    /\ Batches \subseteq (SUBSET Changes) \ {{}}

RoleOps ==
    [kind : {"createRole"}, role : Roles, copyFrom : Roles \cup {Nobody}]
      \cup [kind : {"updateRole"}, role : Roles, active : BOOLEAN]
      \cup [kind : {"deleteRole"}, role : Roles]

CatalogOps ==
    [kind : {"createCatalog"}, permission : Permissions, scopes : ScopeChoices]
      \cup [kind : {"updateCatalog"}, permission : Permissions,
            scopes : ScopeChoices \cup {{}}, status : {"keep", "active", "inactive"}]

MatrixOps == [kind : {"saveMatrix"}, changes : Batches]

MemberOps ==
    [kind : {"addMember", "removeMember"}, role : Roles, user : Users]
      \cup [kind : {"updateUser"}, user : Users, role : Roles, roles : SUBSET Roles]

ExceptionOps ==
    [kind : {"setException"}, actor : Users, user : Users,
     permission : Permissions, scope : CellScopes]
      \cup [kind : {"removeException"}, user : Users, permission : Permissions]

Ops == RoleOps \cup CatalogOps \cup MatrixOps \cup MemberOps \cup ExceptionOps
         \cup [kind : {"reload"}]

(* Catalogues that are installed: roles.manage is always among them.       *)
Installed(catalogue) ==
    [p \in Permissions |-> IF p \in catalogue
                           THEN [status |-> "active", scopes |-> UNION ScopeChoices]
                           ELSE [status |-> "absent", scopes |-> {}]]

AccessInit ==
    /\ roleRow = [r \in Roles |-> "active"]
    /\ \E catalogue \in SUBSET Permissions : Manage \in catalogue /\ permRow = Installed(catalogue)
    /\ cell = [r \in Roles |-> [p \in Permissions |-> IF p = Manage THEN "ALL" ELSE "NONE"]]
    /\ mainRole \in [Users -> SystemRoles]
    /\ extraRoles = [u \in Users |-> {}]
    /\ grant = [u \in Users |-> [p \in Permissions |-> Unset]]
    /\ cache = CacheOfRows
    /\ req = [q \in Requests |-> Idle]
    /\ ops = 0
    /\ raced = FALSE
    /\ overlap = FALSE

Busy == {q \in Requests : req[q] # Idle}

(* A request whose validation passes; a refused one changes nothing.       *)
BeginEdit(q) ==
    /\ req[q] = Idle
    /\ ops < MaxOps
    /\ \E op \in Ops :
         /\ Valid(op)
         /\ req' = [req EXCEPT ![q] = [pc |-> "write", op |-> op]]
    /\ ops' = ops + 1
    /\ raced' = (raced \/ Busy # {})
    /\ overlap' = (overlap \/ Busy # {})
    /\ UNCHANGED <<dbVars, cache>>

Write(q) ==
    /\ req[q].pc = "write"
    /\ DatabaseAccepts(req[q].op)
    /\ Transaction(req[q].op)
    /\ req' = [req EXCEPT ![q] = IF Reloads(req[q].op) THEN [pc |-> "load"] ELSE Idle]
    /\ UNCHANGED <<cache, ops, raced, overlap>>

(* The database refuses the write: the request ends without a reload.      *)
WriteRefused(q) ==
    /\ req[q].pc = "write"
    /\ ~DatabaseAccepts(req[q].op)
    /\ req' = [req EXCEPT ![q] = Idle]
    /\ UNCHANGED <<dbVars, cache, ops, raced, overlap>>

(* loadPermissionsFromDb: the queries of the catalogue and of the roles go *)
(* out together (here they read at one moment); when both answers are in,  *)
(* the matrix is queried.                                                  *)
LoadCatalog(q) ==
    /\ req[q].pc = "load"
    /\ req' = [req EXCEPT ![q] = [pc |-> "catalog", roles |-> ActiveRoles, known |-> KnownRoles,
                                  keys |-> ActiveKeys, scopes |-> ScopesOfRows]]
    /\ overlap' = (overlap /\ Busy # {q})
    /\ UNCHANGED <<dbVars, cache, ops, raced>>

SetCatalog(q) ==
    /\ req[q].pc = "catalog"
    /\ cache' = [cache EXCEPT !.roles = req[q].roles, !.known = req[q].known,
                              !.keys = req[q].keys, !.scopes = req[q].scopes]
    /\ req' = [req EXCEPT ![q] = [pc |-> "matrix"]]
    /\ UNCHANGED <<dbVars, ops, raced, overlap>>

LoadMatrix(q) ==
    /\ req[q].pc = "matrix"
    /\ req' = [req EXCEPT ![q] = [pc |-> "rows", rows |-> ActiveCells]]
    /\ UNCHANGED <<dbVars, cache, ops, raced, overlap>>

SetMatrix(q) ==
    /\ req[q].pc = "rows"
    /\ cache' = [cache EXCEPT !.matrix = MatrixFromRows(req[q].rows, cache.keys)]
    /\ req' = [req EXCEPT ![q] = Idle]
    /\ UNCHANGED <<dbVars, ops, raced, overlap>>

(* An exception reaches its expiresAt: every reader ignores it from then on.*)
Expire(u, p) ==
    /\ grant[u][p].current
    /\ grant' = [grant EXCEPT ![u][p].current = FALSE]
    /\ UNCHANGED <<roleRow, permRow, cell, mainRole, extraRoles, cache, req, ops, raced, overlap>>

AccessNext ==
    \/ \E q \in Requests :
         \/ BeginEdit(q) \/ Write(q) \/ WriteRefused(q)
         \/ LoadCatalog(q) \/ SetCatalog(q) \/ LoadMatrix(q) \/ SetMatrix(q)
    \/ \E u \in Users, p \in Permissions : Expire(u, p)

AccessSpec == AccessInit /\ [][AccessNext]_accessVars

(***************************************************************************)
(* Properties                                                              *)
(***************************************************************************)
(* Anti-lockout (assertSomeRoleKeepsManage): whatever sequence of role     *)
(* updates, deletions and matrix edits runs, some active role keeps        *)
(* roles.manage, as long as no two of them overlap.                        *)
NoLockout == ~raced => SomeRoleKeepsManage({})

(* A cell never holds a scope its permission does not declare: saveMatrix  *)
(* and updateCatalog (SCOPE_HAS_GRANTS) guard it from both sides.          *)
CellsFitTheCatalog ==
    ~raced => \A r \in Roles, p \in Permissions : cell[r][p] \in permRow[p].scopes \cup {"NONE"}

(* Whatever races left in the caches, a reload that starts alone and is    *)
(* not overlapped leaves them equal to the tables (loadPermissionsFromDb). *)
QuietCacheIsTheDatabase == ~overlap /\ Busy = {} => cache = CacheOfRows

(* The access console (simulate), the permissions page of a user (list)   *)
(* and the route guard (requiresPermission) give the same answer, expired  *)
(* exceptions and exceptions on deactivated permissions included.          *)
ConsoleAgrees ==
    \A u \in Users, p \in Permissions :
      /\ Simulated(u, p) = Admitted(u, p)
      /\ p \in cache.keys => (PermissionView(u)[p].effective # "NONE") = Admitted(u, p)

(* Deleting a role takes it from nobody: deleteRole counts its holders     *)
(* first, because user_roles would cascade in silence.                     *)
DeletionTakesNoRole ==
    [][~raced => \A u \in Users : \A r \in extraRoles[u] \ extraRoles'[u] : roleRow'[r] # "absent"]_accessVars

(* Roles, cells and their holders stay usable: somebody can still manage   *)
(* them, a cell means something, and a deletion takes a role from nobody.  *)
RolesStayUsable == [](NoLockout /\ CellsFitTheCatalog) /\ DeletionTakesNoRole

(* What the process answers: with the rows the tables have, and the same   *)
(* in the console, on the page of a user and at the guard of a route.      *)
PermissionAnswersAgree == QuietCacheIsTheDatabase /\ ConsoleAgrees
=============================================================================
