--------------------------- MODULE MCHeadlampSync ---------------------------
(***************************************************************************)
(* Instances of HeadlampSync for TLC.                                      *)
(***************************************************************************)
EXTENDS HeadlampSync

Syncers2 == {"loop", "g1"}

=============================================================================
