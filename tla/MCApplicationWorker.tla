------------------------ MODULE MCApplicationWorker ------------------------
(***************************************************************************)
(* Small instances of ApplicationWorker: jobs of one employer.              *)
(***************************************************************************)
EXTENDS ApplicationWorker

CONSTANT acme

OneTenant == [j \in Jobs |-> acme]
=============================================================================
