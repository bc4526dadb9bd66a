\* One connection with every endpoint, while roles, status and names change
\* between the steps of its request.
SPECIFICATION TxnSpec
SYMMETRY Symmetry
CONSTANTS
  Tenants = {t1}
  Users = {u1}
  Names = {n1, n2}
  Roles = {"admin", "member"}
  NoRow = NoRow
  UnitIds = {x1, x2}
  AssignmentIds = {a1}
  Codes = {c1, c2}
  Top = Top
  Requests = {r1}
  Offered = {"create_unit", "update_unit", "move_unit", "archive_unit", "restore_unit", "create_assignment", "update_assignment", "withdraw"}
  QuietDirectory = FALSE
INVARIANTS
  TxnTypeOK
PROPERTIES
  LostAuthorityStopsRequest
  SerialUnlessLapsed
