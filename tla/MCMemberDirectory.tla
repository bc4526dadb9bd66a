------------------------- MODULE MCMemberDirectory -------------------------
(* Symmetry for the small instances of the directory specifications. *)
EXTENDS MemberDirectoryTxn, TLC

Symmetry ==
  Permutations(Tenants) \union Permutations(Users) \union Permutations(Names)
    \union Permutations(Writers)
=============================================================================
