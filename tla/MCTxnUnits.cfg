\* Two connections on two units and two codes, with fairness: row waits, index
\* waits, stale objects, and the code swap that deadlocks. No symmetry, for the
\* liveness property.
SPECIFICATION FairTxnSpec
CONSTANTS
  Tenants = {t1}
  Users = {u1}
  Names = {n1}
  Roles = {"admin"}
  NoRow = NoRow
  UnitIds = {x1, x2}
  AssignmentIds = {}
  Codes = {c1, c2}
  Top = Top
  Requests = {r1, r2}
  Offered = {"create_unit", "update_unit", "archive_unit"}
  QuietDirectory = TRUE
INVARIANT
  CodesUnique
PROPERTIES
  UneditedColumnsSurvive
  EveryChangeIsAudited
  SerialUnlessStale
  EveryRequestEnds
  StrayUnitsNeedOverlap
