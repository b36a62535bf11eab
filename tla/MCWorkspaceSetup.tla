-------------------------- MODULE MCWorkspaceSetup --------------------------
(***************************************************************************)
(* Instances of WorkspaceSetup for TLC.                                    *)
(***************************************************************************)
EXTENDS WorkspaceSetup

TwoProcs == {"p1", "p2"}

=============================================================================
