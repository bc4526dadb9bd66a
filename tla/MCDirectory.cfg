\* Two overlapping writers on one user and its membership, each of them a login, an
\* administrator or a bootstrap. No symmetry, for the liveness property.
SPECIFICATION FairBootstrapSpec
CONSTANTS
  t1 = t1
  u1 = u1
  n1 = n1
  Tenants = {t1}
  Users = {u1}
  Names = {n1, n2}
  Roles = {"member"}
  NoRow = NoRow
  Writers = {w1, w2}
  Seed <- SeedOfOneUser
INVARIANTS
  MembershipPartMirrors
PROPERTIES
  LoneWriterIsSerial
  SeedIsMirrored
  EveryWriterEnds
