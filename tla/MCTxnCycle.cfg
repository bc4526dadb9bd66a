\* Violated: each of two overlapping moves puts one unit below the other, and
\* each validates against a hierarchy without the other's move.
SPECIFICATION TxnSpec
SYMMETRY Symmetry
CONSTANTS
  Tenants = {t1}
  Users = {u1}
  Names = {n1}
  Roles = {"admin"}
  NoRow = NoRow
  UnitIds = {x1, x2}
  AssignmentIds = {}
  Codes = {c1, c2}
  Top = Top
  Requests = {r1, r2}
  Offered = {"create_unit", "move_unit"}
  QuietDirectory = TRUE
INVARIANT
  Acyclic
