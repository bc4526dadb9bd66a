---------------------- MODULE MCOrganizationStructure ----------------------
(* Symmetry for the small instances of the serial specification. *)
EXTENDS OrganizationStructure, TLC

\* Ids, codes and names are only compared for equality.
Symmetry ==
  Permutations(UnitIds) \union Permutations(AssignmentIds) \union Permutations(Codes)
    \union Permutations(Tenants) \union Permutations(Users)
=============================================================================
