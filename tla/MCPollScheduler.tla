--------------------------- MODULE MCPollScheduler ---------------------------
(* m_devices holds a control gear without a short address and, after it in  *)
(* map order, the gear at the last one.                                     *)
EXTENDS PollScheduler

MCGearList == <<Unassigned, NumAddr - 1>>
=============================================================================
