\* Violated: a unit is archived while an assignment on it is created or
\* reactivated.
SPECIFICATION TxnSpec
SYMMETRY Symmetry
CONSTANTS
  Tenants = {t1}
  Users = {u1}
  Names = {n1}
  Roles = {"admin"}
  NoRow = NoRow
  UnitIds = {x1}
  AssignmentIds = {a1}
  Codes = {c1}
  Top = Top
  Requests = {r1, r2}
  Offered = {"create_unit", "update_unit", "move_unit", "archive_unit", "restore_unit", "create_assignment", "update_assignment"}
  QuietDirectory = TRUE
INVARIANT
  ActiveAssignmentOnActiveUnit
