------------------------------- MODULE Access -------------------------------
(***************************************************************************)
(* Who may do what: users, groups, roles, permissions and the assignments  *)
(* between them (identity.cpp, security_admin.cpp), and the frame in which *)
(* all of them are changed (security_audit.cpp).                           *)
(*                                                                         *)
(* Every operation asks for the permission twice, before it takes the      *)
(* write lock and under it; only the second answer matters here.  Rows are *)
(* never deleted: a membership, grant or assignment is in the sets below   *)
(* while it is not revoked, and a unique index allows one such row each.   *)
(***************************************************************************)
EXTENDS Naturals

CONSTANTS
    User, Group, Role, Permission,
    System, Project, Branch,        \* the scopes of an assignment
    ProjectOf,                      \* the project of each branch
    SystemAdministrator,            \* the built-in roles
    ProjectOwner,
    SecurityManage,                 \* the built-in permissions that are
    ProjectCreate,                  \*   asked for below
    ProjectBranchCreate,
    ProjectRead,
    ProjectPermission,              \* what the owner of a project may do
    MaxEvents                       \* bound on the audit events

VARIABLES
    account,        \* a user is "none", "active" or "disabled"
    catalog,        \* the groups, roles and permissions that were created
    resources,      \* the projects and branches that were created
    members,        \* <<group, user>>
    grants,         \* <<role, permission>>
    assignments,    \* [principal, role, scope]
    lastEvent       \* number and actor of the last audit event

accessTables == <<account, catalog, members, grants, assignments>>
accessVars   == <<accessTables, resources, lastEvent>>

BuiltinPermission ==
    {SecurityManage, ProjectCreate} \cup ProjectPermission

Scope == {System} \cup Project \cup Branch

ASSUME BuiltinCatalog ==
    /\ {SystemAdministrator, ProjectOwner} \subseteq Role
    /\ SystemAdministrator # ProjectOwner
    /\ BuiltinPermission \subseteq Permission
    /\ {ProjectBranchCreate, ProjectRead} \subseteq ProjectPermission
    /\ {SecurityManage, ProjectCreate} \cap ProjectPermission = {}

ASSUME PrincipalsAndScopes ==
    /\ User # {}
    /\ User \cap Group = {}
    /\ System \notin Project \cup Branch
    /\ Project \cap Branch = {}
    /\ ProjectOf \in [Branch -> Project]
    /\ MaxEvents \in Nat

AccessTypeOK ==
    /\ account \in [User -> {"none", "active", "disabled"}]
    /\ catalog \subseteq Group \cup Role \cup Permission
    /\ resources \subseteq Project \cup Branch
    /\ members \subseteq Group \X User
    /\ grants \subseteq Role \X Permission
    /\ assignments \subseteq
           [principal : User \cup Group, role : Role, scope : Scope]
    /\ lastEvent \in [sequence : 0..MaxEvents, actor : User]

\* seedBuiltinSecurity.  Nobody has acted yet; any user stands for that.
AccessInit ==
    /\ account = [u \in User |-> "none"]
    /\ catalog = {SystemAdministrator, ProjectOwner} \cup BuiltinPermission
    /\ resources = {}
    /\ members = {}
    /\ grants = ({SystemAdministrator} \X BuiltinPermission)
                    \cup ({ProjectOwner} \X ProjectPermission)
    /\ assignments = {}
    /\ lastEvent = [sequence |-> 0, actor |-> CHOOSE u \in User : TRUE]

-----------------------------------------------------------------------------
(* Permissions.                                                            *)

\* The assignments made to a user or to a group the user is in.
AssignmentsOf(u) ==
    {a \in assignments : a.principal = u \/ <<a.principal, u>> \in members}

\* The scopes whose assignments count in a scope.
Covering(scope) ==
    {System, scope} \cup {ProjectOf[b] : b \in {scope} \cap Branch}

HasPermission(u, permission, scope) ==
    /\ scope \in Branch => scope \in resources
    /\ account[u] = "active"
    /\ \E a \in AssignmentsOf(u) :
          /\ a.scope \in Covering(scope)
          /\ <<a.role, permission>> \in grants

CanManage(u) == HasPermission(u, SecurityManage, System)

\* A mistaken ManagerLeft: assignments within a project count.
AnyScopeManagerLeft ==
    \E u \in User :
        /\ account[u] = "active"
        /\ \E a \in AssignmentsOf(u) : <<a.role, SecurityManage>> \in grants

\* The query of auditedSecurityMutation for a remaining manager.
ManagerLeft ==
    \E u \in User :
        /\ account[u] = "active"
        /\ \E a \in AssignmentsOf(u) :
              /\ a.scope = System
              /\ <<a.role, SecurityManage>> \in grants

-----------------------------------------------------------------------------
(* The audit log.  Later steps read only its last event.                   *)

\* A mistaken WriteEvents: numbered like the last one.
RepeatNumber(actor, count) ==
    /\ lastEvent.sequence + count <= MaxEvents
    /\ lastEvent' = [sequence |-> lastEvent.sequence + count - 1, actor |-> actor]

\* writeSecurityAuditEvent, once for each of count changes.
WriteEvents(actor, count) ==
    /\ lastEvent.sequence + count <= MaxEvents
    /\ lastEvent' = [sequence |-> lastEvent.sequence + count, actor |-> actor]

\* A mistaken Audited: the permission asked for before the lock is enough.
AuditedOnly(actor) == ManagerLeft' /\ WriteEvents(actor, 1)

\* auditedSecurityMutation around the change that is conjoined with it.
Audited(actor) ==
    /\ CanManage(actor)
    /\ ManagerLeft'
    /\ WriteEvents(actor, 1)

-----------------------------------------------------------------------------
(* Operations.                                                             *)

BootstrapAdministrator(u) ==
    /\ \A v \in User : account[v] = "none"
    /\ account' = [account EXCEPT ![u] = "active"]
    /\ assignments' = assignments \cup
           {[principal |-> u, role |-> SystemAdministrator, scope |-> System]}
    /\ WriteEvents(u, 1)
    /\ UNCHANGED <<catalog, resources, members, grants>>

CreateUser(actor, u) ==
    /\ account[u] = "none"
    /\ account' = [account EXCEPT ![u] = "active"]
    /\ UNCHANGED <<catalog, resources, members, grants, assignments>>
    /\ Audited(actor)

\* createGroup, createRole and createPermission.
CreateCatalogEntry(actor, entry) ==
    /\ entry \notin catalog
    /\ catalog' = catalog \cup {entry}
    /\ UNCHANGED <<account, resources, members, grants, assignments>>
    /\ Audited(actor)

AddGroupMember(actor, g, u) ==
    /\ g \in catalog
    /\ account[u] # "none"
    /\ <<g, u>> \notin members
    /\ members' = members \cup {<<g, u>>}
    /\ UNCHANGED <<account, catalog, resources, grants, assignments>>
    /\ Audited(actor)

RemoveGroupMember(actor, membership) ==
    /\ membership \in members
    /\ members' = members \ {membership}
    /\ UNCHANGED <<account, catalog, resources, grants, assignments>>
    /\ Audited(actor)

GrantRolePermission(actor, role, permission) ==
    /\ {role, permission} \subseteq catalog
    /\ <<role, permission>> \notin grants
    /\ grants' = grants \cup {<<role, permission>>}
    /\ UNCHANGED <<account, catalog, resources, members, assignments>>
    /\ Audited(actor)

RevokeRolePermission(actor, grant) ==
    /\ grant \in grants
    /\ grants' = grants \ {grant}
    /\ UNCHANGED <<account, catalog, resources, members, assignments>>
    /\ Audited(actor)

AssignRole(actor, assignment) ==
    /\ \/ assignment.principal \in Group \cap catalog
       \/ /\ assignment.principal \in User
          /\ account[assignment.principal] # "none"
    /\ assignment.role \in catalog
    /\ assignment.scope \in {System} \cup resources
    /\ assignment \notin assignments
    /\ assignments' = assignments \cup {assignment}
    /\ UNCHANGED <<account, catalog, resources, members, grants>>
    /\ Audited(actor)

RevokeRoleAssignment(actor, assignment) ==
    /\ assignment \in assignments
    /\ assignments' = assignments \ {assignment}
    /\ UNCHANGED <<account, catalog, resources, members, grants>>
    /\ Audited(actor)

EnableUser(actor, u) ==
    /\ account[u] = "disabled"
    /\ account' = [account EXCEPT ![u] = "active"]
    /\ UNCHANGED <<catalog, resources, members, grants, assignments>>
    /\ Audited(actor)

\* The part of disableUser that concerns access.
DisableAccount(actor, u) ==
    /\ account[u] = "active"
    /\ account' = [account EXCEPT ![u] = "disabled"]
    /\ UNCHANGED <<catalog, resources, members, grants, assignments>>
    /\ Audited(actor)

\* createProject, as far as access goes: the creator becomes the owner of the
\* project.  This is no security event and leaves no audit record.
CreateProject(actor, p, main) ==
    /\ HasPermission(actor, ProjectCreate, System)
    /\ ProjectOf[main] = p
    /\ {p, main} \cap resources = {}
    /\ resources' = resources \cup {p, main}
    /\ assignments' = assignments \cup
           {[principal |-> actor, role |-> ProjectOwner, scope |-> p]}
    /\ UNCHANGED <<account, catalog, members, grants, lastEvent>>

\* createBranch from a revision of an older branch, which the actor must be
\* allowed to read.  A branch has no assignments of its own at first.
CreateBranch(actor, b) ==
    /\ HasPermission(actor, ProjectBranchCreate, ProjectOf[b])
    /\ ProjectOf[b] \in resources
    /\ \E base \in Branch :
          /\ ProjectOf[base] = ProjectOf[b]
          /\ HasPermission(actor, ProjectRead, base)
    /\ b \notin resources
    /\ resources' = resources \cup {b}
    /\ UNCHANGED <<accessTables, lastEvent>>

\* Every operation that concerns nothing but access.
AccessOperation(actor) ==
    \/ BootstrapAdministrator(actor)
    \/ \E u \in User : CreateUser(actor, u) \/ EnableUser(actor, u)
    \/ \E entry \in Group \cup Role \cup Permission :
          CreateCatalogEntry(actor, entry)
    \/ \E g \in Group, u \in User : AddGroupMember(actor, g, u)
    \/ \E membership \in members : RemoveGroupMember(actor, membership)
    \/ \E role \in Role, permission \in Permission :
          GrantRolePermission(actor, role, permission)
    \/ \E grant \in grants : RevokeRolePermission(actor, grant)
    \/ \E assignment \in
            [principal : User \cup Group, role : Role, scope : Scope] :
          AssignRole(actor, assignment)
    \/ \E assignment \in assignments : RevokeRoleAssignment(actor, assignment)
    \/ \E p \in Project, b \in Branch : CreateProject(actor, p, b)
    \/ \E b \in Branch : CreateBranch(actor, b)
=============================================================================
