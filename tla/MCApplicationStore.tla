------------------------- MODULE MCApplicationStore -------------------------
(***************************************************************************)
(* Small instances of ApplicationStore.  Either every id is a requisition   *)
(* of its own, so that one job is run while another is imported, dismissed  *)
(* or reopened, or all ids are aliases of one requisition, so that managers *)
(* race on its key.                                                         *)
(***************************************************************************)
EXTENDS ApplicationStore, TLC

CONSTANT k1

OwnKey == [j \in Jobs |-> j]
OneKey == [j \in Jobs |-> k1]

WorkerSymmetry == Permutations(Owners \ Unlocked) \cup Permutations(Unlocked)
JobSymmetry == Permutations(Jobs)
Symmetry == WorkerSymmetry \cup JobSymmetry
=============================================================================
