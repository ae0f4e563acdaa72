-------------------------- MODULE MCGroupAssignments --------------------------
(* Instances of GroupAssignments for TLC.                                  *)
EXTENDS GroupAssignments
=============================================================================
