\* Two connections that create and update two assignments on two units: the
\* partial unique indexes under overlap.
SPECIFICATION TxnSpec
SYMMETRY Symmetry
CONSTANTS
  Tenants = {t1}
  Users = {u1}
  Names = {n1}
  Roles = {"admin"}
  NoRow = NoRow
  UnitIds = {x1, x2}
  AssignmentIds = {a1, a2}
  Codes = {c1, c2}
  Top = Top
  Requests = {r1, r2}
  Offered = {"create_unit", "create_assignment", "update_assignment"}
  QuietDirectory = TRUE
INVARIANTS
  PlacesUnique
