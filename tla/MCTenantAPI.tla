----------------------------- MODULE MCTenantAPI -----------------------------
(* Small instances of TenantAPI for TLC. *)
EXTENDS TenantAPI, TLC

Symmetry == Permutations(Reqs)
=============================================================================
