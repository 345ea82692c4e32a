--------------------------- MODULE MCTenantPacing ---------------------------
(***************************************************************************)
(* A small instance of TenantPacing: days of two instants and hours of two, *)
(* so that a rolling hour crosses midnight.                                 *)
(***************************************************************************)
EXTENDS TenantPacing, TLC

Symmetry == Permutations(Ids) \cup Permutations(Tenants)
=============================================================================
