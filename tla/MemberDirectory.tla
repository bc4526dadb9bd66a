-------------------------- MODULE MemberDirectory --------------------------
(***************************************************************************)
(* Users, tenant memberships and the two directory projections that the    *)
(* triggers of migration 0004 keep beside them.  Every action is one whole *)
(* database transaction: this is the serial reference.  Deleting a user,   *)
(* which cascades, has no caller in the repository and is left out.        *)
(***************************************************************************)

CONSTANTS
  Tenants,       \* rows of tenants; all active
  Users,         \* user ids that may be allocated
  Names,         \* display names
  Roles,         \* membership roles in use
  NoRow          \* the id has no row in the table

ASSUME NamesAssumption == Names # {}
ASSUME RolesAssumption == Roles \subseteq {"owner", "admin", "member", "auditor"}

VARIABLES
  users,            \* users: display name and status
  memberships,      \* memberships: role and status, per tenant and user
  userDirectory,    \* organization_user_directory_projection
  memberDirectory   \* organization_member_directory_projection

directoryVars == <<users, memberships, userDirectory, memberDirectory>>

UserRow == [name : Names, status : {"active", "disabled"}]
MembershipRow == [role : Roles, status : {"active", "revoked"}]
DirectoryRow == [name : Names, role : Roles, membership : {"active", "revoked"},
                 user : {"active", "disabled"}]

ASSUME NoRowAssumption ==
  NoRow \notin UserRow /\ NoRow \notin MembershipRow /\ NoRow \notin DirectoryRow

DirectoryTypeOK ==
  /\ users \in [Users -> UserRow \union {NoRow}]
  /\ memberships \in [Tenants -> [Users -> MembershipRow \union {NoRow}]]
  /\ userDirectory \in [Users -> UserRow \union {NoRow}]
  /\ memberDirectory \in [Tenants -> [Users -> DirectoryRow \union {NoRow}]]

DirectoryInit ==
  /\ users = [u \in Users |-> NoRow]
  /\ memberships = [t \in Tenants |-> [u \in Users |-> NoRow]]
  /\ userDirectory = [u \in Users |-> NoRow]
  /\ memberDirectory = [t \in Tenants |-> [u \in Users |-> NoRow]]

-----------------------------------------------------------------------------
(* What the rest of the system asks of these tables. *)

ActiveUser(u) == users[u] # NoRow /\ users[u].status = "active"
ActiveMember(t, u) == memberships[t][u] # NoRow /\ memberships[t][u].status = "active"

\* require_context and require_write, and the write policies that repeat them.
CanWrite(t, u) ==
  ActiveUser(u) /\ ActiveMember(t, u) /\ memberships[t][u].role \in {"owner", "admin"}

(* An operator with an underscore is a plausible mistake in the definition   *)
(* that its name begins with; no specification uses it.                    *)
ListedMember_AnyUser(t, actor, u) ==
  LET row == memberDirectory[t][u] IN
  IF row # NoRow /\ row.membership = "active" /\ ActiveMember(t, actor)
  THEN [name |-> row.name, role |-> row.role]
  ELSE NoRow

\* organization_member_directory() run by actor u in tenant t: a user's name
\* and role, or NoRow when the function returns no row for that user.
ListedMember(t, actor, u) ==
  LET row == memberDirectory[t][u] IN
  IF /\ row # NoRow
     /\ row.membership = "active" /\ row.user = "active"
     /\ ActiveMember(t, actor)
  THEN [name |-> row.name, role |-> row.role]
  ELSE NoRow

-----------------------------------------------------------------------------
(* The AFTER triggers. *)

SyncUser_NameOnly(u, row) ==
  /\ userDirectory' = [userDirectory EXCEPT ![u] = row]
  /\ memberDirectory' =
       [t \in Tenants |->
         IF memberDirectory[t][u] = NoRow THEN memberDirectory[t]
         ELSE [memberDirectory[t] EXCEPT ![u].name = row.name]]

\* sync_organization_user_directory_projection: upsert the user's own row,
\* then update the user's row in each tenant that has one.
SyncUser(u, row) ==
  /\ userDirectory' = [userDirectory EXCEPT ![u] = row]
  /\ memberDirectory' =
       [t \in Tenants |->
         IF memberDirectory[t][u] = NoRow THEN memberDirectory[t]
         ELSE [memberDirectory[t] EXCEPT
                 ![u] = [name |-> row.name, role |-> memberDirectory[t][u].role,
                         membership |-> memberDirectory[t][u].membership,
                         user |-> row.status]]]

\* sync_organization_member_directory_projection on insert or update: an upsert
\* whose SELECT is empty when the user has no row in the user projection.
SyncMembership(t, u, row) ==
  /\ memberDirectory' =
       IF userDirectory[u] = NoRow THEN memberDirectory
       ELSE [memberDirectory EXCEPT
              ![t][u] = [name |-> userDirectory[u].name, role |-> row.role,
                         membership |-> row.status, user |-> userDirectory[u].status]]
  /\ UNCHANGED userDirectory

\* The same trigger on delete.
UnsyncMembership(t, u) ==
  /\ memberDirectory' = [memberDirectory EXCEPT ![t][u] = NoRow]
  /\ UNCHANGED userDirectory

-----------------------------------------------------------------------------
(* The transactions. *)

\* The first login of an external identity.
CreateUser(u, n) ==
  LET row == [name |-> n, status |-> "active"] IN
  /\ users[u] = NoRow
  /\ users' = [users EXCEPT ![u] = row]
  /\ SyncUser(u, row)
  /\ UNCHANGED memberships

\* Every later login refreshes the display name of an active user.
RefreshUser(u, n) ==
  /\ ActiveUser(u)
  /\ users' = [users EXCEPT ![u].name = n]
  /\ SyncUser(u, [users[u] EXCEPT !.name = n])
  /\ UNCHANGED memberships

\* An administrator disables or re-enables a user.
SetUserStatus(u, s) ==
  /\ users[u] # NoRow
  /\ users' = [users EXCEPT ![u].status = s]
  /\ SyncUser(u, [users[u] EXCEPT !.status = s])
  /\ UNCHANGED memberships

\* An administrator, or a statement of the bootstrap (whose one transaction
\* DirectoryBootstrap has whole), writes a membership.  The foreign key needs the user.
WriteMembership(t, u, r, s) ==
  LET row == [role |-> r, status |-> s] IN
  /\ users[u] # NoRow
  /\ memberships' = [memberships EXCEPT ![t][u] = row]
  /\ SyncMembership(t, u, row)
  /\ UNCHANGED users

DeleteMembership(t, u) ==
  /\ memberships[t][u] # NoRow
  /\ memberships' = [memberships EXCEPT ![t][u] = NoRow]
  /\ UnsyncMembership(t, u)
  /\ UNCHANGED users

DirectoryNext ==
  \E u \in Users :
    \/ \E n \in Names : CreateUser(u, n) \/ RefreshUser(u, n)
    \/ \E s \in {"active", "disabled"} : SetUserStatus(u, s)
    \/ \E t \in Tenants :
         \/ \E r \in Roles, s \in {"active", "revoked"} : WriteMembership(t, u, r, s)
         \/ DeleteMembership(t, u)

DirectorySpec == DirectoryInit /\ [][DirectoryNext]_directoryVars

-----------------------------------------------------------------------------
(* Properties. *)

\* The user projection is the users table, column for column.
UserDirectoryMirrors == userDirectory = users

\* The member projection that validate_organization_assignment and
\* organization_member_directory() read is the join of memberships and users,
\* whichever of the two tables was written last.
MemberDirectoryMirrors ==
  \A t \in Tenants, u \in Users :
    IF memberships[t][u] = NoRow THEN memberDirectory[t][u] = NoRow
    ELSE /\ users[u] # NoRow
         /\ memberDirectory[t][u] =
              [name |-> users[u].name, role |-> memberships[t][u].role,
               membership |-> memberships[t][u].status, user |-> users[u].status]

\* organization_member_directory() returns an active member of the actor's
\* tenant with the user's current name and the membership's current role, and
\* no disabled user, revoked member or stranger; a revoked actor gets nothing.
DirectoryListsActiveMembers ==
  \A t \in Tenants, actor, u \in Users :
    ListedMember(t, actor, u) =
      IF ActiveMember(t, actor) /\ ActiveMember(t, u) /\ ActiveUser(u)
      THEN [name |-> users[u].name, role |-> memberships[t][u].role]
      ELSE NoRow
=============================================================================
