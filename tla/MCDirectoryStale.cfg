\* Violated: a membership's trigger copies the name and status of a user whose
\* update has not committed yet.
SPECIFICATION DirectoryTxnSpec
SYMMETRY Symmetry
CONSTANTS
  Tenants = {t1}
  Users = {u1}
  Names = {n1, n2}
  Roles = {"admin"}
  NoRow = NoRow
  Writers = {w1, w2}
INVARIANT
  DirectoryListsActiveMembers
