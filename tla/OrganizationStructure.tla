----------------------- MODULE OrganizationStructure -----------------------
(***************************************************************************)
(* The organization structure with every request run alone: one action is  *)
(* the whole transaction of one mutating endpoint, from the actor check to *)
(* the commit, with the constraints, triggers and policies of migrations   *)
(* 0003 and 0004 that can refuse it.  A refused request changes nothing    *)
(* and is not a step.  Names, descriptions, unit types and assignment      *)
(* roles are payload and left out.                                         *)
(***************************************************************************)
EXTENDS MemberDirectory

CONSTANTS
  UnitIds,        \* ids of organization_units
  AssignmentIds,  \* ids of organization_unit_assignments
  Codes,          \* unit codes up to letter case: lower(code)
  Top             \* the NULL parent of a root unit

VARIABLES
  units,            \* organization_units
  unitIntegrity,    \* organization_unit_integrity_projection
  assignments,      \* organization_unit_assignments
  unitTrail,        \* new_values of the last committed audit event of each unit
  assignmentTrail   \* and of each assignment

tableVars == <<units, unitIntegrity, assignments>>
trailVars == <<unitTrail, assignmentTrail>>
structureVars == <<directoryVars, tableVars, trailVars>>

UnitRow == [tenant : Tenants, parent : UnitIds \union {Top}, code : Codes,
            status : {"active", "archived"}]
IntegrityRow == [tenant : Tenants, parent : UnitIds \union {Top},
                 status : {"active", "archived"}]
AssignmentRow == [tenant : Tenants, unit : UnitIds, user : Users,
                  primary : BOOLEAN, status : {"active", "inactive"}]

ASSUME TopAssumption == Top \notin UnitIds
ASSUME NoOrganizationRowAssumption ==
  NoRow \notin UnitRow /\ NoRow \notin IntegrityRow /\ NoRow \notin AssignmentRow

TypeOK ==
  /\ DirectoryTypeOK
  /\ units \in [UnitIds -> UnitRow \union {NoRow}]
  /\ unitIntegrity \in [UnitIds -> IntegrityRow \union {NoRow}]
  /\ assignments \in [AssignmentIds -> AssignmentRow \union {NoRow}]
  /\ unitTrail \in [UnitIds -> UnitRow \union {NoRow}]
  /\ assignmentTrail \in [AssignmentIds -> AssignmentRow \union {NoRow}]

Init ==
  /\ DirectoryInit
  /\ units = [u \in UnitIds |-> NoRow]
  /\ unitIntegrity = [u \in UnitIds |-> NoRow]
  /\ assignments = [a \in AssignmentIds |-> NoRow]
  /\ unitTrail = [u \in UnitIds |-> NoRow]
  /\ assignmentTrail = [a \in AssignmentIds |-> NoRow]

-----------------------------------------------------------------------------
(* What PostgreSQL checks of a new row version. *)

\* S holds the parent of each of its members, as the projection has it.
ClosedUnderParent(S) ==
  \A x \in S : unitIntegrity[x] # NoRow /\ unitIntegrity[x].parent # Top
                 => unitIntegrity[x].parent \in S

\* The recursive query parents(id) of the trigger: p and everything above it.
Ancestors(p) ==
  {x \in UnitIds : \A S \in SUBSET UnitIds : p \in S /\ ClosedUnderParent(S) => x \in S}

(* An operator with an underscore is a plausible mistake in the definition   *)
(* that its name begins with; no specification uses it.                    *)
ValidUnit_SelfOnly(u, row) ==
  row.parent # Top =>
    /\ row.parent # u
    /\ unitIntegrity[row.parent] # NoRow
    /\ unitIntegrity[row.parent].tenant = row.tenant
    /\ unitIntegrity[row.parent].status = "archived" => row.status # "active"
ValidUnit_AnyParentStatus(u, row) ==
  row.parent # Top =>
    /\ unitIntegrity[row.parent] # NoRow
    /\ unitIntegrity[row.parent].tenant = row.tenant
    /\ u \notin Ancestors(row.parent)
ValidUnit_AnyTenant(u, row) ==
  row.parent # Top =>
    /\ unitIntegrity[row.parent] # NoRow
    /\ unitIntegrity[row.parent].status = "archived" => row.status # "active"
    /\ u \notin Ancestors(row.parent)

\* validate_organization_unit
ValidUnit(u, row) ==
  row.parent # Top =>
    /\ row.parent # u
    /\ unitIntegrity[row.parent] # NoRow
    /\ unitIntegrity[row.parent].tenant = row.tenant
    /\ unitIntegrity[row.parent].status = "archived" => row.status # "active"
    /\ u \notin Ancestors(row.parent)

HasActiveDependents_UnitsOnly(u) ==
  \E x \in UnitIds : units[x] # NoRow /\ units[x].parent = u /\ units[x].status = "active"

\* Active units directly below u and active assignments on it.
HasActiveDependents(u) ==
  \/ \E x \in UnitIds : units[x] # NoRow /\ units[x].parent = u /\ units[x].status = "active"
  \/ \E a \in AssignmentIds :
       assignments[a] # NoRow /\ assignments[a].unit = u /\ assignments[a].status = "active"

\* prevent_organization_archive: only the step from active to archived is guarded.
MayArchive(u, old, row) ==
  row.status = "archived" /\ old.status # "archived" => ~HasActiveDependents(u)

\* organization_units_tenant_code_ci_idx
SameCode(row, other) == other # NoRow /\ other.tenant = row.tenant /\ other.code = row.code
CodeFree(u, row) == \A x \in UnitIds \ {u} : ~SameCode(row, units[x])

\* validate_organization_assignment, which fires only for active rows.
ValidAssignment(row) ==
  row.status = "active" =>
    /\ LET member == memberDirectory[row.tenant][row.user] IN
         member # NoRow /\ member.membership = "active" /\ member.user = "active"
    /\ LET unit == unitIntegrity[row.unit] IN
         unit # NoRow /\ unit.tenant = row.tenant /\ unit.status = "active"

\* The two partial unique indexes of assignments: one active primary row for a
\* user in a tenant, one active row for a user on a unit.
SamePlace(row, other) ==
  /\ other # NoRow
  /\ row.status = "active" /\ other.status = "active"
  /\ row.tenant = other.tenant /\ row.user = other.user
  /\ (row.primary /\ other.primary) \/ row.unit = other.unit
PlaceFree(a, row) == \A x \in AssignmentIds \ {a} : ~SamePlace(row, assignments[x])

-----------------------------------------------------------------------------
(* What a statement leaves behind. *)

SyncUnit_WholeRow(u, row) == unitIntegrity' = [unitIntegrity EXCEPT ![u] = row]
SyncUnit_InsertOnly(u, row) ==
  unitIntegrity' = IF unitIntegrity[u] # NoRow THEN unitIntegrity ELSE [unitIntegrity EXCEPT
    ![u] = [tenant |-> row.tenant, parent |-> row.parent, status |-> row.status]]

\* sync_organization_unit_integrity_projection
SyncUnit(u, row) ==
  unitIntegrity' = [unitIntegrity EXCEPT
    ![u] = [tenant |-> row.tenant, parent |-> row.parent, status |-> row.status]]

\* The row and its projection.
WriteUnit(u, row) ==
  /\ units' = [units EXCEPT ![u] = row]
  /\ SyncUnit(u, row)
  /\ UNCHANGED assignments

WriteAssignment(a, row) ==
  /\ assignments' = [assignments EXCEPT ![a] = row]
  /\ UNCHANGED <<units, unitIntegrity>>

RecordUnit_Before(u, row) ==
  unitTrail' = [unitTrail EXCEPT ![u] = units[u]] /\ UNCHANGED assignmentTrail

\* _audit with _unit_values or _assignment_values of the object in memory.  A unit's
\* description is in neither: a PATCH of it alone writes an event that reports no change.
RecordUnit(u, row) ==
  unitTrail' = [unitTrail EXCEPT ![u] = row] /\ UNCHANGED assignmentTrail
RecordAssignment(a, row) ==
  assignmentTrail' = [assignmentTrail EXCEPT ![a] = row] /\ UNCHANGED unitTrail

InsertUnit(u, row) ==
  /\ ValidUnit(u, row)
  /\ CodeFree(u, row)
  /\ WriteUnit(u, row)
  /\ RecordUnit(u, row)
  /\ UNCHANGED directoryVars

ReplaceUnit(u, row) ==
  /\ MayArchive(u, units[u], row)
  /\ InsertUnit(u, row)

PutAssignment(a, row) ==
  /\ ValidAssignment(row)
  /\ PlaceFree(a, row)
  /\ WriteAssignment(a, row)
  /\ RecordAssignment(a, row)
  /\ UNCHANGED directoryVars

-----------------------------------------------------------------------------
(* The endpoints.  u and a are found only in the actor's current tenant t. *)

FoundUnit_AnyTenant(t, u) == units[u] # NoRow

FoundUnit(t, u) == units[u] # NoRow /\ units[u].tenant = t
FoundAssignment(t, a) == assignments[a] # NoRow /\ assignments[a].tenant = t

CreateUnit(actor, t, u, parent, code) ==
  /\ CanWrite(t, actor)
  /\ units[u] = NoRow
  /\ InsertUnit(u, [tenant |-> t, parent |-> parent, code |-> code, status |-> "active"])

UpdateUnit(actor, t, u, code) ==
  /\ CanWrite(t, actor) /\ FoundUnit(t, u)
  /\ ReplaceUnit(u, [units[u] EXCEPT !.code = code])

MoveUnit(actor, t, u, parent) ==
  /\ CanWrite(t, actor) /\ FoundUnit(t, u)
  /\ ReplaceUnit(u, [units[u] EXCEPT !.parent = parent])

\* The service refuses before the trigger would, and also when the unit is
\* archived already.
ArchiveUnit(actor, t, u) ==
  /\ CanWrite(t, actor) /\ FoundUnit(t, u)
  /\ ~HasActiveDependents(u)
  /\ ReplaceUnit(u, [units[u] EXCEPT !.status = "archived"])

RestoreUnit(actor, t, u) ==
  /\ CanWrite(t, actor) /\ FoundUnit(t, u)
  /\ ReplaceUnit(u, [units[u] EXCEPT !.status = "active"])

CreateAssignment(actor, t, a, unit, user, primary) ==
  /\ CanWrite(t, actor)
  /\ assignments[a] = NoRow
  /\ PutAssignment(a, [tenant |-> t, unit |-> unit, user |-> user,
                       primary |-> primary, status |-> "active"])

\* One PATCH may change the status and the primary flag together.
UpdateAssignment(actor, t, a, primary, status) ==
  /\ CanWrite(t, actor) /\ FoundAssignment(t, a)
  /\ PutAssignment(a, [assignments[a] EXCEPT !.primary = primary, !.status = status])

UnitRequest(actor, t) ==
  \E u \in UnitIds :
    \/ \E parent \in UnitIds \union {Top}, code \in Codes : CreateUnit(actor, t, u, parent, code)
    \/ \E code \in Codes : UpdateUnit(actor, t, u, code)
    \/ \E parent \in UnitIds \union {Top} : MoveUnit(actor, t, u, parent)
    \/ ArchiveUnit(actor, t, u)
    \/ RestoreUnit(actor, t, u)

AssignmentRequest(actor, t) ==
  \E a \in AssignmentIds, primary \in BOOLEAN :
    \/ \E unit \in UnitIds, user \in Users : CreateAssignment(actor, t, a, unit, user, primary)
    \/ \E status \in {"active", "inactive"} : UpdateAssignment(actor, t, a, primary, status)

\* A login or an administrator writes the directory between two requests.
DirectoryChange == DirectoryNext /\ UNCHANGED <<tableVars, trailVars>>

Next ==
  \/ \E actor \in Users, t \in Tenants : UnitRequest(actor, t) \/ AssignmentRequest(actor, t)
  \/ DirectoryChange

Spec == Init /\ [][Next]_structureVars
-----------------------------------------------------------------------------
(* Properties. *)

\* The projection the validation triggers read instead of the RLS-protected
\* table has exactly the unit's tenant, parent and status.
UnitIntegrityMirrors ==
  \A u \in UnitIds :
    unitIntegrity[u] = IF units[u] = NoRow THEN NoRow
                       ELSE [tenant |-> units[u].tenant, parent |-> units[u].parent,
                             status |-> units[u].status]

\* A unit's parent is a unit of the same tenant, though the parent may be
\* changed by any later move.
ParentInTenant ==
  \A u \in UnitIds : units[u] # NoRow /\ units[u].parent # Top =>
    units[units[u].parent] # NoRow /\ units[units[u].parent].tenant = units[u].tenant

\* No sequence of moves ties units into a cycle: no nonempty set of units
\* contains the parent of each of its members.
Acyclic ==
  \A S \in (SUBSET UnitIds) \ {{}} : \E x \in S : units[x] = NoRow \/ units[x].parent \notin S

\* An active unit has no archived parent, whether the parent was archived, the
\* child moved, created or restored.
NoActiveBelowArchived ==
  \A u \in UnitIds :
    units[u] # NoRow /\ units[u].status = "active" /\ units[u].parent # Top =>
      units[units[u].parent].status = "active"

\* An active assignment is on an active unit of its own tenant.
ActiveAssignmentOnActiveUnit ==
  \A a \in AssignmentIds :
    assignments[a] # NoRow /\ assignments[a].status = "active" =>
      LET unit == units[assignments[a].unit] IN
      unit # NoRow /\ unit.tenant = assignments[a].tenant /\ unit.status = "active"

\* Codes are unique in a tenant up to case, archived units included.
CodesUnique ==
  \A u, x \in UnitIds : u # x /\ units[u] # NoRow => ~SameCode(units[u], units[x])

\* A user has at most one active primary assignment in a tenant and one active
\* assignment on a unit, whatever mix of activations and primary flags.
PlacesUnique ==
  \A a, x \in AssignmentIds : a # x /\ assignments[a] # NoRow =>
    ~SamePlace(assignments[a], assignments[x])

\* The last audit event of a row has the row's values as new_values.
TrailMatchesRows == unitTrail = units /\ assignmentTrail = assignments

\* An assignment becomes active only for a user who is at that moment an active
\* user with an active membership, though the trigger looks at projections only.
ActivationNeedsActiveMember ==
  [][\A a \in AssignmentIds :
       /\ assignments'[a] # NoRow /\ assignments'[a].status = "active"
       /\ assignments[a] = NoRow \/ assignments[a].status = "inactive"
       => /\ ActiveUser(assignments'[a].user)
          /\ ActiveMember(assignments'[a].tenant, assignments'[a].user)]_structureVars

\* A step of one tenant's actor changes no row of another tenant: what changes
\* belongs to a tenant in which some user may write.
ChangesStayInWritableTenants ==
  [][/\ \A u \in UnitIds : units'[u] # units[u] =>
          \E actor \in Users : CanWrite(units'[u].tenant, actor)
     /\ \A a \in AssignmentIds : assignments'[a] # assignments[a] =>
          \E actor \in Users : CanWrite(assignments'[a].tenant, actor)]_structureVars
=============================================================================
