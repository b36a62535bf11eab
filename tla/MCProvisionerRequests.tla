----------------------- MODULE MCProvisionerRequests -----------------------
(***************************************************************************)
(* Instances of ProvisionerRequests for TLC.                               *)
(***************************************************************************)
EXTENDS ProvisionerRequests

=============================================================================
