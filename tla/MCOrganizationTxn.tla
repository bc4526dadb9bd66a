------------------------- MODULE MCOrganizationTxn -------------------------
(* Symmetry for the small instances of the interleaved specification. *)
EXTENDS OrganizationTxn, TLC

\* Ids and codes are only compared for equality, connections are alike.
Symmetry ==
  Permutations(UnitIds) \union Permutations(AssignmentIds) \union Permutations(Codes)
    \union Permutations(Requests)
=============================================================================
