---------------------------- MODULE MCGroupState ----------------------------
(* Instances of GroupState for TLC.                                        *)
EXTENDS GroupState
=============================================================================
