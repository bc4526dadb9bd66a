\* Three units and one assignment in two tenants, written by requests one after
\* the other, while users are disabled and memberships come and go.
SPECIFICATION Spec
SYMMETRY Symmetry
CONSTANTS
  Tenants = {t1, t2}
  Users = {u1, u2}
  Names = {n1}
  Roles = {"admin"}
  NoRow = NoRow
  UnitIds = {x1, x2, x3}
  AssignmentIds = {a1}
  Codes = {c1, c2}
  Top = Top
INVARIANTS
  UnitIntegrityMirrors
  Acyclic
  NoActiveBelowArchived
  ParentInTenant
  ActiveAssignmentOnActiveUnit
  TrailMatchesRows
  MemberDirectoryMirrors
  DirectoryListsActiveMembers
PROPERTIES
  ActivationNeedsActiveMember
  ChangesStayInWritableTenants
