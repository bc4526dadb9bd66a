------------------------ MODULE MCDirectoryBootstrap ------------------------
(* A small bootstrap: one user, then its membership. *)
EXTENDS DirectoryBootstrap

CONSTANTS t1, u1, n1

SeedOfOneUser ==
  <<[table |-> "users", user |-> u1, row |-> [name |-> n1, status |-> "active"]],
    [table |-> "memberships", user |-> u1, tenant |-> t1,
     row |-> [role |-> "member", status |-> "active"]]>>
=============================================================================
