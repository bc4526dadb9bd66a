---------------------------- MODULE MCAuditTrail ----------------------------
(* Symmetry for the small instances of the audit trail. *)
EXTENDS AuditTrail, TLC

Symmetry == Permutations(Writers) \union Permutations(Tenants) \union Permutations(Kinds)
=============================================================================
