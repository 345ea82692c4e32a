--------------------------- MODULE MCPostingAlerts ---------------------------
(***************************************************************************)
(* A small instance of PostingAlerts: one tenant with two sites and two     *)
(* postings.                                                                *)
(***************************************************************************)
EXTENDS PostingAlerts, TLC

CONSTANT acme

OneTenant == [s \in Sites |-> acme]
OneEmployer == [p \in Postings |-> acme]

Symmetry == Permutations(Sites) \cup Permutations(Postings)
=============================================================================
