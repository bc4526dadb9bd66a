\* Two overlapping requests of one session in two tenants, beside an
\* administrator. No symmetry, for the liveness property.
SPECIFICATION FairSessionsSpec
CONSTANTS
  Tenants = {t1, t2}
  Users = {u1}
  Names = {n1}
  Roles = {"admin"}
  NoRow = NoRow
  Sids = {s1}
  Requests = {r1, r2}
  NoTenant = NoTenant
  Closed = Closed
INVARIANTS
  TenantBackedByChoice
PROPERTIES
  LogoutRefusedOnlyAfterRace
  ImplementsLifecycle
  EveryRequestEnds
